---- MODULE Spec2Model ----
(***************************************************************************)
(* Model of the fixedtick server: the fixed-rate tick chain of             *)
(* src/src/server.rs (receive, idle-timeout sweep, connection handler,     *)
(* process_input, broadcast, send) over the transport of                   *)
(* src/src/networking.                                                     *)
(*                                                                         *)
(* Units.  Times are integers in thirds of a millisecond, so that one      *)
(* fixed tick (1/60 s) is the integer 50.  Paddle X is an integer in       *)
(* thirds of a pixel, so that one input step (PADDLE_SPEED * dt =          *)
(* 500/60 px) is the integer 25.  Arithmetic is exact; f32 rounding is not *)
(* modelled.                                                               *)
(*                                                                         *)
(* ECS.  A NetConnection entity, its paddle entity and its ball entity are *)
(* spawned by one Connected event and despawned together by                *)
(* handle_client_disconnected, and nothing else despawns a paddle or a     *)
(* ball, so the three are one record of conns, keyed by the entity id of   *)
(* the NetConnection.  Commands (spawn, despawn) are deferred to the end   *)
(* of the system that issues them; component writes through a query are   *)
(* immediate.                                                              *)
(***************************************************************************)
EXTENDS Integers, Sequences, FiniteSets, TLC

(***************************************************************************)
(* Bounds of the model.                                                    *)
(***************************************************************************)
\* Number of fixed ticks a behaviour runs, and the number of items (datagrams,
\* socket errors) the peers put on the socket in it: without simulated
\* latency, and with it.
MaxTicks == 4
MaxDatagrams == 4
MaxTicksLatency == 5
MaxDatagramsLatency == 3
\* Number of ticks the receive paths of server and client are followed for.
MaxTicksRecv == MaxTicks - 1
\* Number of items that reach the socket between two ticks: at most half of
\* those of a behaviour.
MaxPerTick == MaxDatagrams \div 2
\* NetworkResource.idle_timeout in ticks (the default is 5 s = 300 ticks).
IdleTimeoutTicks == 2

\* Peer addresses.
Addrs == {"a", "b"}

(***************************************************************************)
(* Program constants.                                                      *)
(***************************************************************************)
TICK_RATE_HZ == 60
\* 1 / TICK_RATE_HZ seconds, in thirds of a millisecond.
TICK_S == 3000 \div TICK_RATE_HZ
\* 6 ms.
MIN_JITTER_S == 18
BUFFER_DELAY_S == 1 * TICK_S + MIN_JITTER_S
BUFFER_LEN == 1 + (BUFFER_DELAY_S \div TICK_S)

PADDLE_SIZE_X == 120
PADDLE_SPEED == 500
PADDLE_PADDING == 10
WALL_THICKNESS == 10
LEFT_WALL == -450
RIGHT_WALL == 450
BOTTOM_WALL == -300
TOP_WALL == 300
BRICK_SIZE_X == 100
BRICK_SIZE_Y == 30
GAP_BETWEEN_PADDLE_AND_FLOOR == 60
GAP_BETWEEN_PADDLE_AND_BRICKS == 270
GAP_BETWEEN_BRICKS == 5
GAP_BETWEEN_BRICKS_AND_CEILING == 20
GAP_BETWEEN_BRICKS_AND_SIDES == 20
PADDLE_Y == BOTTOM_WALL + GAP_BETWEEN_PADDLE_AND_FLOOR

\* Paddle bounds, in thirds of a pixel.
PADDLE_LEFT_BOUND ==
    3 * (LEFT_WALL + WALL_THICKNESS \div 2 + PADDLE_SIZE_X \div 2 + PADDLE_PADDING)
PADDLE_RIGHT_BOUND ==
    3 * (RIGHT_WALL - WALL_THICKNESS \div 2 - PADDLE_SIZE_X \div 2 - PADDLE_PADDING)

\* NetworkResource.idle_timeout.
idle_timeout == IdleTimeoutTicks * TICK_S

\* Bit numbers of NetKey.
NetKey_Left == 0
NetKey_Right == 1

\* setup: the number of bricks, each of which takes one NetId.
n_columns ==
    ((RIGHT_WALL - LEFT_WALL) - 2 * GAP_BETWEEN_BRICKS_AND_SIDES)
        \div (BRICK_SIZE_X + GAP_BETWEEN_BRICKS)
n_rows ==
    (TOP_WALL - (PADDLE_Y + GAP_BETWEEN_PADDLE_AND_BRICKS)
        - GAP_BETWEEN_BRICKS_AND_CEILING)
        \div (BRICK_SIZE_Y + GAP_BETWEEN_BRICKS)

(***************************************************************************)
(* Small helpers.                                                          *)
(***************************************************************************)
Min(a, b) == IF a < b THEN a ELSE b
Max(a, b) == IF a > b THEN a ELSE b
Range(s) == {s[i] : i \in 1..Len(s)}
IsPrefix(s, t) == Len(s) <= Len(t) /\ SubSeq(t, 1, Len(s)) = s
\* Bit b of the byte m.
Bit(m, b) == (m \div (2 ^ b)) % 2

(***************************************************************************)
(* Datagram payloads.  A payload is a sequence of bytes: the empty         *)
(* sequence is a heartbeat, anything else is the codec's encoding of a     *)
(* ClientToServerPacket (variant index, then the fields in order).         *)
(***************************************************************************)
EncodeInput(key_mask, sequence, simulating_frame) ==
    <<0, key_mask, sequence, simulating_frame>>
EncodePing(ping_id) == <<1, ping_id>>

\* decode_from_slice: the packet, or an error for an unknown variant or a
\* truncated body.  Bytes after the packet are ignored.
DecodeClientToServer(bytes) ==
    IF Len(bytes) >= 4 /\ bytes[1] = 0
    THEN [ok |-> TRUE, variant |-> "Input", key_mask |-> bytes[2],
          sequence |-> bytes[3], ping_id |-> 0]
    ELSE IF Len(bytes) >= 2 /\ bytes[1] = 1
    THEN [ok |-> TRUE, variant |-> "Ping", key_mask |-> 0,
          sequence |-> 0, ping_id |-> bytes[2]]
    ELSE [ok |-> FALSE, variant |-> "Err", key_mask |-> 0,
          sequence |-> 0, ping_id |-> 0]

Heartbeat == <<>>
InputLeft == EncodeInput(1, 2, 0)
InputRight == EncodeInput(2, 1, 0)
Undecodable == <<9>>

\* What the peers send without simulated latency: peer "a" the inputs Left
\* (sequence 2) and Right (sequence 1), in any order and any number of times;
\* peer "b" a ping and an undecodable datagram.
Payloads(a) ==
    IF a = "a" THEN {InputLeft, InputRight}
    ELSE {EncodePing(7), Undecodable}

\* What the peers send under simulated latency.
LatencyPayloads(a) ==
    IF a = "a" THEN {Heartbeat, InputLeft} ELSE {Heartbeat}

\* What recv_from returns: a datagram, or an error other than WouldBlock
\* (WouldBlock is the empty socket).
Datagram(a, p) == [type |-> "Ok", addr |-> a, payload |-> p, n |-> 0]
IoError == [type |-> "Err", addr |-> "-", payload |-> <<>>, n |-> 0]

\* NetworkEvent.  (The Instant of Message is only logged.)
Event(t, a, p) == [type |-> t, addr |-> a, payload |-> p, n |-> 0]

(***************************************************************************)
(* Simulated latency (networking/mod.rs).                                  *)
(***************************************************************************)
\* SimLatencySetting; loss_chance in percent.
Setting(base, jitter, loss) ==
    [base_ms |-> base, jitter_stddev_ms |-> jitter, loss_pct |-> loss]

\* The receive-side profiles a behaviour is run under: none, loss only,
\* a fixed latency of 20 ms, and jitter with no base.
RecvSettings ==
    { Setting(0, 0, 0), Setting(0, 0, 50), Setting(20, 0, 0), Setting(0, 30, 0) }

\* The delays, in ms, a draw from Normal(base, stddev) is modelled to give
\* when stddev > 0 (negative draws are the delay 0).
JitterDraws == {0, 70}

is_set(s) == s.base_ms # 0 \/ s.jitter_stddev_ms # 0 \/ s.loss_pct # 0

\* roll: the set of results the random draws can produce at time t.
roll(s, t) ==
    IF ~is_set(s) THEN {[kind |-> "NoOp", t |-> 0]}
    ELSE
        (IF s.loss_pct > 0 THEN {[kind |-> "Drop", t |-> 0]} ELSE {})
        \cup
        (IF s.loss_pct >= 100 THEN {}
         ELSE IF s.jitter_stddev_ms > 0
              THEN {[kind |-> "Delay", t |-> t + 3 * d] : d \in JitterDraws}
         ELSE {[kind |-> "Delay", t |-> t + 3 * s.base_ms]})

\* VecDeque::insert at the position binary_search gives: the result is the
\* sorted sequence with t added.
RECURSIVE InsertSorted(_, _)
InsertSorted(times, t) ==
    IF times = <<>> THEN <<t>>
    ELSE IF t <= Head(times) THEN <<t>> \o times
    ELSE <<Head(times)>> \o InsertSorted(Tail(times), t)

\* The indices process_sim_latency releases: i is released iff
\* now >= sim_latency_delivery_times[i]; both queues lose index i together.
RECURSIVE SelectIdx(_, _, _)
SelectIdx(s, keep, i) ==
    IF i > Len(s) THEN <<>>
    ELSE (IF i \in keep THEN <<s[i]>> ELSE <<>>) \o SelectIdx(s, keep, i + 1)

(***************************************************************************)
(* State.                                                                  *)
(***************************************************************************)
VARIABLES
    pc,                  \* the next system of the tick chain, or "panicked"
    now,                 \* wall clock (Time<Real>, Instant::now)
    elapsed,             \* Time<Fixed>::elapsed
    frame_counter,       \* FixedTickWorldResource.frame_counter
    socket,              \* what is pending on the UDP socket
    sent,                \* items the peers have put on the socket so far
    recv_setting,        \* SimLatencySettings.receive
    connections,         \* NetworkResource.connections: addr -> last activity
    events,              \* unread NetworkEvents
    sim_latency_delayed,         \* SimLatencyReceiveQueue
    sim_latency_delivery_times,
    conns,               \* NetConnection + NetInput entities, with paddle and ball
    addr_to_entity,      \* NetConnections.addr_to_entity
    next_player_index,   \* NetConnections.next_player_index
    net_id_next,         \* NetIdGenerator.next
    next_entity,         \* entity ids handed out so far
    messages,            \* Transport.messages
    world,               \* the WorldStateData of the last broadcast
    heard,               \* history: addr -> fixed time of its last datagram
    rx,                  \* history: what the last receive step read
    before,              \* history: conns as they were before the last process_input
    world_states,        \* client: WorldStates.states and .received_per_sec
    pongs,               \* client: PingState.pongs
    score,               \* Score
    bricks,              \* the NetIds of the Brick entities in the world
    issued,              \* history: the player indices given out so far
    sim_send_times,      \* Transport.sim_send_times
    sim_send_settings,   \* Transport.sim_send_settings
    rolled,              \* history: what each call of Transport::send rolled
    drained,             \* history: the last drain_messages_to_send and its result
    send_failed,         \* history: the messages send_to failed for in the last send_packet_system
    interp_started,      \* client: WorldStates.interp_started
    interpolating_from,  \* client: WorldStates.interpolating_from, <<>> for None
    interpolating_to,    \* client: WorldStates.interpolating_to, <<>> for None
    net_id_to_entity_id, \* client: NetIdUtils.net_id_to_entity_id
    client_entities,     \* client: the local entities that have a NetId
    client_next_entity,  \* client: entity ids handed out so far
    client_score,        \* client: Score
    unacked_inputs,      \* client: UnAckedPlayerInputs.inputs
    disable_client_prediction,   \* client: Args.disable_client_prediction
    unacked_before,      \* history: unacked_inputs before the last reconcile_and_update_predictions
    ticked               \* history: what the last tick_simulation popped, drained and applied,
                         \* and in tos the arrival numbers of the snapshots applied so far

vars ==
    << pc, now, elapsed, frame_counter, socket, sent, recv_setting, connections,
       events, sim_latency_delayed, sim_latency_delivery_times, conns,
       addr_to_entity, next_player_index, net_id_next, next_entity, messages,
       world, heard, rx, before, world_states, pongs, score, bricks, issued,
       sim_send_times, sim_send_settings, rolled, drained, send_failed,
       interp_started, interpolating_from, interpolating_to,
       net_id_to_entity_id, client_entities, client_next_entity,
       client_score, unacked_inputs, disable_client_prediction,
       unacked_before, ticked >>

\* What only the server's systems write, and what only the client's.
server_vars ==
    << frame_counter, connections, conns, addr_to_entity, next_player_index,
       net_id_next, next_entity, messages, world, before, score, bricks,
       issued >>
\* What broadcast_world_state and send_packet_system leave alone of the
\* Transport when it has no send-side profile, and its history.
transport_vars == << sim_send_times, sim_send_settings, rolled, drained >>
\* What only send_packet_system writes.
send_vars == << send_failed >>
client_vars == << world_states, pongs >>
\* What only the client's fixed tick after its connection_handler writes.
tick_vars ==
    << interp_started, interpolating_from, interpolating_to,
       net_id_to_entity_id, client_entities, client_next_entity,
       client_score, unacked_inputs, disable_client_prediction,
       unacked_before, ticked >>

\* A function with an empty domain.
Empty == [x \in {} |-> 0]
\* f with x mapped to v (HashMap::insert).
Put(f, x, v) == [y \in DOMAIN f \cup {x} |-> IF y = x THEN v ELSE f[y]]
\* f without the keys in ks (HashMap::remove, retain).
Without(f, ks) == [y \in DOMAIN f \ ks |-> f[y]]

\* The state after construction, under the receive-side profile s; `at` is
\* where the application's schedule starts.
\* The state of a server that k connections have come to and left, with time
\* counted from then on; k = 0 is the state after construction and setup.
\* s is the receive-side and snd the send-side latency profile.
\* The counters are where k connects leave them in a build whose arithmetic
\* wraps, which for k <= 255 is also where every other build leaves them.
InitServer(k, s, snd, at) ==
    /\ pc = at
    /\ now = 0
    /\ elapsed = 0
    /\ frame_counter = 0
    /\ socket = <<>>
    /\ sent = 0
    /\ recv_setting = s
    /\ connections = Empty
    /\ events = <<>>
    /\ sim_latency_delayed = <<>>
    /\ sim_latency_delivery_times = <<>>
    /\ conns = Empty
    /\ addr_to_entity = Empty
    /\ next_player_index = k % 256
    /\ net_id_next = (1 + n_rows * n_columns + 2 * k) % 65536
    /\ next_entity = 0
    /\ messages = <<>>
    /\ world = [frame |-> 0, bricks |-> {}, entities |-> <<>>]
    /\ heard = Empty
    /\ rx = <<>>
    /\ before = Empty
    /\ world_states = [states |-> <<>>, received_per_sec |-> <<>>]
    /\ pongs = <<>>
    /\ score = 0
    /\ bricks = 1..(n_rows * n_columns)
    /\ issued = 0..(Min(k, 256) - 1)
    /\ sim_send_times = <<>>
    /\ sim_send_settings = snd
    /\ rolled = <<>>
    /\ drained = [calls |-> 0, filter |-> "none", sends |-> 0, messages |-> <<>>]
    /\ send_failed = <<>>

\* The client's resources as main inserts them: WorldStates::default(),
\* an empty NetIdUtils map, Score(0), UnAckedPlayerInputs::default(); no
\* entity with a NetId exists.  dcp is --disable-client-prediction.
InitClient(dcp) ==
    /\ interp_started = FALSE
    /\ interpolating_from = <<>>
    /\ interpolating_to = <<>>
    /\ net_id_to_entity_id = Empty
    /\ client_entities = Empty
    /\ client_next_entity = 0
    /\ client_score = 0
    /\ unacked_inputs = <<>>
    /\ disable_client_prediction = dcp
    /\ unacked_before = <<>>
    /\ ticked = [path |-> "none", popped |-> <<>>, skipped |-> <<>>,
                 applied |-> <<>>, tos |-> <<>>, score |-> <<>>]

InitState(k, s, snd, at) == InitServer(k, s, snd, at) /\ InitClient(FALSE)

\* The server's Transport has no send-side profile: ServerPlugin is given
\* the default sim_settings.
InitAfter(k, s, at) == InitState(k, s, Setting(0, 0, 0), at)

InitWith(s, at) == InitAfter(0, s, at)

\* The server with ServerPlugin's default settings: no simulated latency.
Init == InitWith(Setting(0, 0, 0), "start_tick")

(***************************************************************************)
(* The peers and the clocks.                                               *)
(***************************************************************************)
\* A peer's datagram arrives on the socket of the application whose schedule
\* is at `at`.  n is its arrival number (history).
PeerSend(at, a, p, budget, ticks) ==
    /\ pc = at
    /\ sent < budget
    /\ elapsed < ticks * TICK_S
    /\ Len(socket) < MaxPerTick
    /\ socket' = Append(socket, [Datagram(a, p) EXCEPT !.n = sent + 1])
    /\ sent' = sent + 1
    /\ UNCHANGED << pc, now, elapsed, frame_counter, recv_setting, connections,
                    events, sim_latency_delayed, sim_latency_delivery_times,
                    conns, addr_to_entity, next_player_index, net_id_next,
                    next_entity, messages, world, heard, rx, before,
                    world_states, pongs, score, bricks, issued >>
    /\ UNCHANGED transport_vars
    /\ UNCHANGED send_vars
    /\ UNCHANGED tick_vars

\* A read of the socket will fail with an error other than WouldBlock.
SocketError ==
    /\ pc = "start_tick"
    /\ sent < MaxDatagrams
    /\ elapsed < MaxTicks * TICK_S
    /\ Len(socket) < MaxPerTick
    /\ socket' = Append(socket, IoError)
    /\ sent' = sent + 1
    /\ UNCHANGED << pc, now, elapsed, frame_counter, recv_setting, connections,
                    events, sim_latency_delayed, sim_latency_delivery_times,
                    conns, addr_to_entity, next_player_index, net_id_next,
                    next_entity, messages, world, heard, rx, before,
                    world_states, pongs, score, bricks, issued >>
    /\ UNCHANGED transport_vars
    /\ UNCHANGED send_vars
    /\ UNCHANGED tick_vars

\* The longest frame: two tick periods.
MaxFrame == 2 * TICK_S

\* The wall-clock time between two fixed ticks: none (two ticks run in one
\* frame), one tick period, or a longest frame.
RealDeltas == {0, TICK_S, MaxFrame}

\* The fixed schedule starts a tick: Time<Fixed> advances by one timestep.
\* A tick runs only once the wall clock has accumulated it, and the wall
\* clock is never ahead of the fixed clock by a whole frame or more.  `at`
\* and `to` are the schedule's start and its first system.
StartTick(at, to, d, ticks) ==
    /\ pc = at
    /\ elapsed < ticks * TICK_S
    /\ now + d >= elapsed + TICK_S
    /\ now + d < elapsed + TICK_S + MaxFrame
    /\ elapsed' = elapsed + TICK_S
    /\ now' = now + d
    /\ pc' = to
    /\ before' = Empty
    /\ UNCHANGED << frame_counter, socket, sent, recv_setting, connections,
                    events, sim_latency_delayed, sim_latency_delivery_times,
                    conns, addr_to_entity, next_player_index, net_id_next,
                    next_entity, messages, world, heard, rx,
                    world_states, pongs, score, bricks, issued >>
    /\ UNCHANGED transport_vars
    /\ UNCHANGED send_vars
    /\ UNCHANGED tick_vars

(***************************************************************************)
(* server_recv_packet_system.  st is the part of the state the system      *)
(* writes: [connections, events, delayed, times].                          *)
(***************************************************************************)
\* send_with_sim_latency: the states the roll can lead to.
send_with_sim_latency(setting, st, event, t) ==
    { CASE r.kind = "NoOp" -> [st EXCEPT !.events = Append(@, event)]
        [] r.kind = "Drop" -> st
        [] r.kind = "Delay" ->
              [st EXCEPT !.delayed = Append(@, event),
                         !.times = InsertSorted(@, r.t)]
      : r \in roll(setting, t) }

\* process_sim_latency at the instant t.
process_sim_latency(st, t) ==
    LET due == {i \in 1..Len(st.times) : t >= st.times[i]}
        later == (1..Len(st.times)) \ due
    IN  [st EXCEPT !.events = @ \o SelectIdx(st.delayed, due, 1),
                   !.delayed = SelectIdx(st.delayed, later, 1),
                   !.times = SelectIdx(st.times, later, 1)]

\* recv_datagram that discards a zero-length datagram before it touches the
\* registry, as the client's loop does.
recv_datagram_discard_first(setting, st, d, tf, t) ==
    IF Len(d.payload) = 0 THEN {st}
    ELSE LET inserted == [st EXCEPT !.connections = Put(@, d.addr, tf)]
             established ==
                 IF d.addr \notin DOMAIN st.connections
                 THEN send_with_sim_latency(setting, inserted,
                                            Event("Connected", d.addr, <<>>), t)
                 ELSE {inserted}
         IN  UNION { send_with_sim_latency(setting, s,
                         [Event("Message", d.addr, d.payload) EXCEPT !.n = d.n], t)
                     : s \in established }

\* The Ok arm of the loop for one datagram d read at fixed time tf.
recv_datagram(setting, st, d, tf, t) ==
    LET inserted == [st EXCEPT !.connections = Put(@, d.addr, tf)]
        established ==
            IF d.addr \notin DOMAIN st.connections
            THEN send_with_sim_latency(setting, inserted,
                                       Event("Connected", d.addr, <<>>), t)
            ELSE {inserted}
    IN  IF Len(d.payload) = 0
        THEN established
        ELSE UNION { send_with_sim_latency(setting, s,
                         [Event("Message", d.addr, d.payload) EXCEPT !.n = d.n], t)
                     : s \in established }

\* The loop: reads until WouldBlock (the socket is empty) or an error.
\* Yields the states it can end in, each with what is left on the socket.
RECURSIVE recv_loop(_, _, _, _, _)
recv_loop(setting, st, sock, tf, t) ==
    IF sock = <<>> THEN {[st |-> st, rest |-> <<>>]}
    ELSE IF Head(sock).type = "Err"
    THEN { [st |-> s, rest |-> Tail(sock)]
           : s \in send_with_sim_latency(setting, st,
                                         Event("RecvError", "-", <<>>), t) }
    ELSE UNION { recv_loop(setting, s, Tail(sock), tf, t)
                 : s \in recv_datagram(setting, st, Head(sock), tf, t) }

server_recv_packet_system ==
    /\ pc = "recv"
    /\ \E r \in recv_loop(recv_setting,
                          [connections |-> connections, events |-> events,
                           delayed |-> sim_latency_delayed,
                           times |-> sim_latency_delivery_times],
                          socket, elapsed, now) :
          LET st == process_sim_latency(r.st, now)
              read == SubSeq(socket, 1, Len(socket) - Len(r.rest))
              from == {read[i].addr : i \in {j \in 1..Len(read) : read[j].type = "Ok"}}
          IN  /\ connections' = st.connections
              /\ events' = st.events
              /\ sim_latency_delayed' = st.delayed
              /\ sim_latency_delivery_times' = st.times
              /\ socket' = r.rest
              /\ rx' = read
              /\ heard' = [a \in DOMAIN heard \cup from |->
                              IF a \in from THEN elapsed ELSE heard[a]]
    /\ pc' = "idle"
    /\ UNCHANGED << now, elapsed, frame_counter, sent, recv_setting, conns,
                    addr_to_entity, next_player_index, net_id_next,
                    next_entity, messages, world, before,
                    world_states, pongs, score, bricks, issued >>
    /\ UNCHANGED transport_vars
    /\ UNCHANGED send_vars
    /\ UNCHANGED tick_vars

(***************************************************************************)
(* idle_timeout_system.                                                    *)
(***************************************************************************)
reached_idle_timeout(t, last_update) == t - last_update > idle_timeout

\* The sequences that list every element of S once: the orders in which
\* HashMap::retain can visit the entries.
Orders(S) ==
    {o \in [1..Cardinality(S) -> S] : \A i, j \in DOMAIN o : o[i] = o[j] => i = j}

idle_timeout_system ==
    /\ pc = "idle"
    /\ LET idle == {a \in DOMAIN connections :
                        reached_idle_timeout(elapsed, connections[a])}
       IN  /\ \E o \in Orders(idle) :
                 events' = events \o [i \in 1..Len(o) |-> Event("Disconnected", o[i], <<>>)]
           /\ connections' = Without(connections, idle)
    /\ pc' = "conn"
    /\ rx' = <<>>
    /\ UNCHANGED << now, elapsed, frame_counter, socket, sent, recv_setting,
                    sim_latency_delayed, sim_latency_delivery_times, conns,
                    addr_to_entity, next_player_index, net_id_next,
                    next_entity, messages, world, heard, before,
                    world_states, pongs, score, bricks, issued >>
    /\ UNCHANGED transport_vars
    /\ UNCHANGED send_vars
    /\ UNCHANGED tick_vars

(***************************************************************************)
(* connection_handler.  h is what the system has done so far:              *)
(*   conns        the entities the queries see, with their components      *)
(*   spawned      entities spawned through Commands (not yet in the world) *)
(*   despawned    entities despawned through Commands (still in the world) *)
(*   addr_to_entity, next_player_index, net_id_next, next_entity           *)
(*   panicked     an unwrap() failed                                       *)
(***************************************************************************)
\* NetIdGenerator::next on the u16 counter.
NetIdGenerator_next(next) == (next + 1) % 65536

\* The entity the Connected arm spawns for addr a, with its paddle at x and
\* its ball.
NewConnection(h, a, x) ==
    [ addr |-> a,
      player_index |-> h.next_player_index,
      last_applied_input |-> 0,
      paddle_net_id |-> h.net_id_next,
      ball_net_id |-> NetIdGenerator_next(h.net_id_next),
      paddle_x |-> x,
      input_state |-> "Buffering",
      inputs |-> <<>>,
      pings |-> <<>>,
      pushed |-> <<>>,      \* history: arrival numbers of the inputs appended
      taken |-> <<>> ]      \* history: arrival numbers of the inputs consumed

\* `self.next += 1` and `next_player_index += 1` at the top of their ranges:
\* a build with overflow checks panics there, any other wraps.
Connected_arm(h, a, x, overflow_checks) ==
    LET id == h.next_entity + 1
    IN  IF overflow_checks
           /\ (\/ h.net_id_next = 65535
               \/ NetIdGenerator_next(h.net_id_next) = 65535
               \/ h.next_player_index = 255)
        THEN [h EXCEPT !.panicked = TRUE]
        ELSE [h EXCEPT !.spawned = Put(@, id, NewConnection(h, a, x)),
                       !.addr_to_entity = Put(@, a, id),
                       !.next_player_index = (@ + 1) % 256,
                       !.net_id_next = NetIdGenerator_next(NetIdGenerator_next(@)),
                       !.next_entity = id]

handle_client_disconnected(h, a) ==
    IF a \in DOMAIN h.addr_to_entity
    THEN LET id == h.addr_to_entity[a]
         IN  IF id \notin DOMAIN h.conns
             THEN [h EXCEPT !.panicked = TRUE]       \* client_query.get(id).unwrap()
             ELSE [h EXCEPT !.despawned = @ \cup {id},
                            !.addr_to_entity = Without(@, {a})]
    ELSE h

\* inputs.push_back(ReceivedPlayerInput { data, time_received }).
push_input(c, packet, t, n) ==
    [c EXCEPT !.inputs = Append(@, [key_mask |-> packet.key_mask,
                                    sequence |-> packet.sequence,
                                    time_received |-> t,
                                    n |-> n]),
              !.pushed = Append(@, n)]

Message_arm(h, e, t) ==
    IF e.addr \notin DOMAIN h.addr_to_entity
       \/ h.addr_to_entity[e.addr] \notin DOMAIN h.conns
    THEN h                                           \* player was not found
    ELSE LET id == h.addr_to_entity[e.addr]
             packet == DecodeClientToServer(e.payload)
         IN  IF ~packet.ok THEN h
             ELSE IF packet.variant = "Input"
             THEN [h EXCEPT !.conns[id] = push_input(@, packet, t, e.n)]
             ELSE [h EXCEPT !.conns[id].pings = Append(@, packet.ping_id)]

\* The loop over the events; xs[a] is the X the random generator gives the
\* paddle of address a.  A panic ends the loop.
RECURSIVE handle_events(_, _, _, _, _)
handle_events(h, evs, xs, t, overflow_checks) ==
    IF evs = <<>> \/ h.panicked THEN h
    ELSE LET e == Head(evs)
             h1 == CASE e.type = "Connected" ->
                            Connected_arm(h, e.addr, xs[e.addr], overflow_checks)
                     [] e.type = "Disconnected" -> handle_client_disconnected(h, e.addr)
                     [] e.type = "Message" -> Message_arm(h, e, t)
                     [] e.type = "SendError" -> handle_client_disconnected(h, e.addr)
                     [] OTHER -> h
         IN  handle_events(h1, Tail(evs), xs, t, overflow_checks)

\* The X values gen_range(PADDLE_LEFT_BOUND..=PADDLE_RIGHT_BOUND) is modelled
\* to give: near the left bound, and the right bound.
SpawnXs == {PADDLE_LEFT_BOUND + 10, PADDLE_RIGHT_BOUND}

connection_handler ==
    /\ pc = "conn"
    /\ frame_counter' = frame_counter + 1
    /\ \E xs \in [{events[i].addr : i \in {j \in 1..Len(events) :
                                             events[j].type = "Connected"}}
                  -> SpawnXs] : \E overflow_checks \in BOOLEAN :
          LET h == handle_events(
                       [conns |-> conns, spawned |-> Empty, despawned |-> {},
                        addr_to_entity |-> addr_to_entity,
                        next_player_index |-> next_player_index,
                        net_id_next |-> net_id_next,
                        next_entity |-> next_entity, panicked |-> FALSE],
                       events, xs, now, overflow_checks)
          IN  /\ pc' = IF h.panicked THEN "panicked" ELSE "input"
              \* the deferred commands are applied after the system
              /\ conns' = [id \in (DOMAIN h.conns \ h.despawned) \cup DOMAIN h.spawned |->
                              IF id \in DOMAIN h.spawned THEN h.spawned[id]
                              ELSE h.conns[id]]
              /\ addr_to_entity' = h.addr_to_entity
              /\ next_player_index' = h.next_player_index
              /\ net_id_next' = h.net_id_next
              /\ next_entity' = h.next_entity
              /\ issued' = issued \cup {h.spawned[id].player_index :
                                            id \in DOMAIN h.spawned}
    /\ events' = <<>>
    /\ UNCHANGED << now, elapsed, socket, sent, recv_setting, connections,
                    sim_latency_delayed, sim_latency_delivery_times, messages,
                    world, heard, rx, before,
                    world_states, pongs, score, bricks >>
    /\ UNCHANGED transport_vars
    /\ UNCHANGED send_vars
    /\ UNCHANGED tick_vars

(***************************************************************************)
(* process_input.                                                          *)
(***************************************************************************)
\* What one input's key mask adds to `direction`.
key_direction(key_mask) ==
    (IF Bit(key_mask, NetKey_Right) # 0 THEN 1 ELSE 0)
    - (IF Bit(key_mask, NetKey_Left) # 0 THEN 1 ELSE 0)

\* clamp that forgets the lower bound.
clamp_upper_only(v, lo, hi) == IF v > hi THEN hi ELSE v

\* f32::clamp.
clamp(v, lo, hi) == IF v < lo THEN lo ELSE IF v > hi THEN hi ELSE v

\* The new paddle X: x + direction * PADDLE_SPEED * delta_seconds, clamped.
new_paddle_position(x, direction) ==
    clamp(x + (direction * PADDLE_SPEED * TICK_S) \div 1000,
          PADDLE_LEFT_BOUND, PADDLE_RIGHT_BOUND)

\* still_buffering with the delay of one tick period in place of BUFFER_DELAY_S.
still_buffering_one_tick(t, inputs) == t - Head(inputs).time_received < TICK_S

\* Buffering: the oldest input has not yet waited BUFFER_DELAY_S at time t.
still_buffering(t, inputs) == t - Head(inputs).time_received < BUFFER_DELAY_S

\* caught_up with <= in place of <.
caught_up_off_by_one(inputs) == Len(inputs) <= BUFFER_LEN

\* The break of the consume loop.
caught_up(inputs) == Len(inputs) < BUFFER_LEN

\* pop_back in place of pop_front.
pop_back(inputs) ==
    [input |-> inputs[Len(inputs)], rest |-> SubSeq(inputs, 1, Len(inputs) - 1)]

\* pop_front.
pop_front(inputs) == [input |-> Head(inputs), rest |-> Tail(inputs)]

\* record_applied keeping the highest sequence consumed so far.
record_applied_max(c, input) ==
    [c EXCEPT !.last_applied_input = Max(@, input.sequence)]

\* The connection's last_applied_input after it consumed `input`.
record_applied(c, input) == [c EXCEPT !.last_applied_input = input.sequence]

\* The consume loop; `direction` is declared before the loop and is not
\* reset between inputs.
RECURSIVE consume_loop(_, _)
consume_loop(c, direction) ==
    LET p == pop_front(c.inputs)
        d == direction + key_direction(p.input.key_mask)
        c1 == record_applied(
                  [c EXCEPT !.inputs = p.rest,
                            !.paddle_x = new_paddle_position(@, d),
                            !.taken = Append(@, p.input.n)],
                  p.input)
    IN  IF caught_up(c1.inputs) THEN c1 ELSE consume_loop(c1, d)

\* process_input_of where Playing with an empty queue only continues.
process_input_of_no_starvation(c, t) ==
    IF c.inputs = <<>> THEN c
    ELSE IF c.input_state = "Buffering" /\ still_buffering(t, c.inputs) THEN c
    ELSE consume_loop([c EXCEPT !.input_state = "Playing"], 0)

\* process_input_of where Playing consumes nothing from a queue shorter than
\* BUFFER_LEN.
process_input_of_holds_back(c, t) ==
    IF c.input_state = "Buffering"
    THEN IF c.inputs = <<>> THEN c
         ELSE IF still_buffering(t, c.inputs) THEN c
         ELSE consume_loop([c EXCEPT !.input_state = "Playing"], 0)
    ELSE IF c.inputs = <<>> THEN [c EXCEPT !.input_state = "Buffering"]
         ELSE IF caught_up(c.inputs) THEN c
         ELSE consume_loop(c, 0)

\* The body of the loop over the connections, for the connection c.
process_input_of(c, t) ==
    IF c.input_state = "Buffering"
    THEN IF c.inputs = <<>> THEN c
         ELSE IF still_buffering(t, c.inputs) THEN c
         ELSE consume_loop([c EXCEPT !.input_state = "Playing"], 0)
    ELSE IF c.inputs = <<>> THEN [c EXCEPT !.input_state = "Buffering"]
         ELSE consume_loop(c, 0)

process_input ==
    /\ pc = "input"
    /\ conns' = [id \in DOMAIN conns |-> process_input_of(conns[id], now)]
    /\ before' = conns
    /\ pc' = "collide"
    /\ UNCHANGED << now, elapsed, frame_counter, socket, sent, recv_setting,
                    connections, events, sim_latency_delayed,
                    sim_latency_delivery_times, addr_to_entity,
                    next_player_index, net_id_next, next_entity, messages,
                    world, heard, rx,
                    world_states, pongs, score, bricks, issued >>
    /\ UNCHANGED transport_vars
    /\ UNCHANGED send_vars
    /\ UNCHANGED tick_vars

(***************************************************************************)
(* check_for_collisions.  The positions of the balls are not modelled:     *)
(* which ball meets which brick in a tick is the choice `hits`, a set of   *)
(* pairs <<connection, brick NetId>>.  The bricks met are despawned        *)
(* through Commands, after the loops, so a brick that two balls meet in    *)
(* the same tick counts twice.                                             *)
(***************************************************************************)
\* The bricks a ball can have reached in a run: those of the bottom row with
\* the lowest NetIds.
MaxBricksInReach == 1

\* The score as the hits of this tick alone.
score_of_this_tick(sc, hits) == Cardinality(hits)
\* `score.0 += 1`, once for each hit.
score_counting(sc, hits) == sc + Cardinality(hits)

\* max_score bounds the score of a run (the score is a u32).
check_for_collisions(max_score) ==
    /\ pc = "collide"
    /\ \E hits \in SUBSET ((DOMAIN conns) \X {b \in bricks : b <= MaxBricksInReach}) :
          /\ score_counting(score, hits) <= max_score
          /\ score' = score_counting(score, hits)
          /\ bricks' = bricks \ {hit[2] : hit \in hits}
    /\ pc' = "broadcast"
    /\ UNCHANGED << now, elapsed, frame_counter, socket, sent, recv_setting,
                    connections, events, sim_latency_delayed,
                    sim_latency_delivery_times, conns, addr_to_entity,
                    next_player_index, net_id_next, next_entity, messages,
                    world, heard, rx, before,
                    world_states, pongs, issued >>
    /\ UNCHANGED transport_vars
    /\ UNCHANGED send_vars
    /\ UNCHANGED tick_vars

(***************************************************************************)
(* broadcast_world_state.  `world` keeps the snapshot: its frame and its   *)
(* entities, the bricks, balls and paddles without their positions on the  *)
(* Y axis.                                                                 *)
(***************************************************************************)
\* The elements of a set of entity ids, in ascending order (the order the
\* queries are taken to iterate in).
RECURSIVE Ascending(_)
Ascending(S) ==
    IF S = {} THEN <<>>
    ELSE LET m == CHOOSE x \in S : \A y \in S : x <= y
         IN  <<m>> \o Ascending(S \ {m})

NetEntity(type, net_id, player, x) ==
    [entity_type |-> type, net_id |-> net_id, player_index |-> player, x |-> x]

\* world.entities after the bricks: the balls, the paddles, then the score as
\* the entity with NetId(0).
world_entities(cs, sc) ==
    LET ids == Ascending(DOMAIN cs)
    IN  [i \in 1..Len(ids) |->
            NetEntity("Ball", cs[ids[i]].ball_net_id, cs[ids[i]].player_index, 0)]
        \o
        [i \in 1..Len(ids) |->
            NetEntity("Paddle", cs[ids[i]].paddle_net_id, cs[ids[i]].player_index,
                      cs[ids[i]].paddle_x)]
        \o
        <<[entity_type |-> "Score", net_id |-> 0, score |-> sc]>>

\* The WorldStateData broadcast; the Brick entities, which come first in
\* world.entities, are kept as the set of their NetIds.
WorldStateData(frame, bs, cs, sc) ==
    [frame |-> frame, bricks |-> bs, entities |-> world_entities(cs, sc)]

\* The codec's encoding of a ServerToClientPacket (variant index, then the
\* body: of a world state the frame is kept).
EncodeWorldState(frame) == <<0, frame>>
EncodePong(ping_id) == <<1, ping_id>>
DecodeServerToClient(bytes) ==
    IF Len(bytes) >= 2 /\ bytes[1] = 0
    THEN [ok |-> TRUE, variant |-> "WorldState", frame |-> bytes[2], ping_id |-> 0]
    ELSE IF Len(bytes) >= 2 /\ bytes[1] = 1
    THEN [ok |-> TRUE, variant |-> "Pong", frame |-> 0, ping_id |-> bytes[2]]
    ELSE [ok |-> FALSE, variant |-> "Err", frame |-> 0, ping_id |-> 0]

\* Message::new(destination, payload) of the packet of this kind; the
\* payload is the slice of the buffer the packet was encoded into.
Message(dest, kind, frame, ping_id) ==
    [destination |-> dest, kind |-> kind, frame |-> frame, ping_id |-> ping_id,
     payload |-> IF kind = "WorldState" THEN EncodeWorldState(frame)
                 ELSE EncodePong(ping_id)]

\* The loop body that sends the pongs before the world state.
sends_for_pongs_first(c, frame) ==
    [i \in 1..Len(c.pings) |-> Message(c.addr, "Pong", 0, c.pings[i])]
    \o <<Message(c.addr, "WorldState", frame, 0)>>

\* What the loop over the connections sends for the connection c.
sends_for(c, frame) ==
    <<Message(c.addr, "WorldState", frame, 0)>>
    \o [i \in 1..Len(c.pings) |-> Message(c.addr, "Pong", 0, c.pings[i])]

RECURSIVE Concat(_)
Concat(ss) == IF ss = <<>> THEN <<>> ELSE Head(ss) \o Concat(Tail(ss))

broadcast_world_state ==
    /\ pc = "broadcast"
    /\ IF addr_to_entity = Empty
       THEN UNCHANGED << world, messages, conns >>
       ELSE LET ids == Ascending(DOMAIN conns)
            IN  /\ world' = WorldStateData(frame_counter, bricks, conns, score)
                /\ messages' = messages \o
                       Concat([i \in 1..Len(ids) |-> sends_for(conns[ids[i]], frame_counter)])
                /\ conns' = [id \in DOMAIN conns |-> [conns[id] EXCEPT !.pings = <<>>]]
    /\ pc' = "send"
    /\ UNCHANGED << now, elapsed, frame_counter, socket, sent, recv_setting,
                    connections, events, sim_latency_delayed,
                    sim_latency_delivery_times, addr_to_entity,
                    next_player_index, net_id_next, next_entity, heard, rx,
                    before,
                    world_states, pongs, score, bricks, issued >>
    /\ UNCHANGED transport_vars
    /\ UNCHANGED send_vars
    /\ UNCHANGED tick_vars

(***************************************************************************)
(* send_packet_system on the server's socket, which is bound and not       *)
(* connected: when send_to fails, socket.peer_addr().unwrap() panics.      *)
(***************************************************************************)
\* The loop over the drained messages; `first` is the index of the first
\* message send_to fails for (0: none), peer is what socket.peer_addr()
\* gives, and r is [events, failed, panicked].
RECURSIVE send_loop(_, _, _, _, _)
send_loop(msgs, i, first, peer, r) ==
    IF i > Len(msgs) THEN r
    ELSE IF i # first THEN send_loop(msgs, i + 1, first, peer, r)
    ELSE IF ~peer.ok
    THEN [r EXCEPT !.failed = Append(@, msgs[i]),
                   !.panicked = TRUE]                 \* peer_addr().unwrap()
    ELSE send_loop(msgs, i + 1, first, peer,
                   [r EXCEPT !.failed = Append(@, msgs[i]),
                             !.events = Append(@, Event("SendError", peer.addr,
                                                        msgs[i].payload))])

\* peer_addr() of the socket new_server binds and never connects.
NotConnected == [ok |-> FALSE, addr |-> "-"]

send_packet_system ==
    /\ pc = "send"
    /\ \E first \in 0..Len(messages) :
          LET r == send_loop(messages, 1, first, NotConnected,
                             [events |-> events, failed |-> <<>>, panicked |-> FALSE])
          IN  /\ events' = r.events
              /\ send_failed' = r.failed
              /\ pc' = IF r.panicked THEN "panicked" ELSE "start_tick"
    /\ messages' = <<>>
    /\ UNCHANGED << now, elapsed, frame_counter, socket, sent, recv_setting,
                    connections, sim_latency_delayed,
                    sim_latency_delivery_times, conns, addr_to_entity,
                    next_player_index, net_id_next, next_entity, world, heard,
                    rx, before,
                    world_states, pongs, score, bricks, issued >>
    /\ UNCHANGED transport_vars
    /\ UNCHANGED tick_vars

(***************************************************************************)
(* The client's receive path: client_recv_packet_system and the            *)
(* connection_handler of src/src/client.rs.  The client application has    *)
(* the same transport resources as the server (ResUdpSocket, the events,   *)
(* SimLatencyReceiveQueue, SimLatencySettings); when the schedule that     *)
(* runs is the client's, socket, events, sim_latency_* and recv_setting    *)
(* are the client's.                                                       *)
(***************************************************************************)
\* The magic tag 0xBA11BA11 as write_u32 lays it out (network byte order).
WORLD_PACKET_HEADER_TAG == <<186, 17, 186, 17>>
\* Tag, last_applied_input, local_client_index.
HEADER_LEN == 9

\* NetworkEndian::write_u32.
write_u32(v) ==
    << (v \div 16777216) % 256, (v \div 65536) % 256, (v \div 256) % 256, v % 256 >>
\* NetworkEndian::read_u32 of the four bytes at the start of bytes.
read_u32(bytes) ==
    ((bytes[1] * 256 + bytes[2]) * 256 + bytes[3]) * 256 + bytes[4]

\* write_header.
write_header(last_applied_input, player_index) ==
    WORLD_PACKET_HEADER_TAG \o write_u32(last_applied_input) \o <<player_index>>

\* What reaches the client's socket: a heartbeat, a world state, a pong, a
\* datagram shorter than the header, and one with another tag.
ServerPayloads ==
    { Heartbeat,
      write_header(2, 1) \o EncodeWorldState(5),
      write_header(0, 1) \o EncodePong(7),
      <<186, 17, 186>>,
      <<0, 0, 0, 0, 0, 0, 0, 2, 1>> \o EncodeWorldState(5) }

\* The loop of client_recv_packet_system: a zero-length datagram is
\* discarded before anything else is done.
RECURSIVE client_recv_loop(_, _, _, _)
client_recv_loop(setting, st, sock, t) ==
    IF sock = <<>> THEN {[st |-> st, rest |-> <<>>]}
    ELSE IF Head(sock).type = "Err"
    THEN { [st |-> s, rest |-> Tail(sock)]
           : s \in send_with_sim_latency(setting, st,
                                         Event("RecvError", "-", <<>>), t) }
    ELSE IF Len(Head(sock).payload) = 0
    THEN client_recv_loop(setting, st, Tail(sock), t)
    ELSE UNION { client_recv_loop(setting, s, Tail(sock), t)
                 : s \in send_with_sim_latency(
                             setting, st,
                             [Event("Message", Head(sock).addr, Head(sock).payload)
                                 EXCEPT !.n = Head(sock).n], t) }

client_recv_packet_system ==
    /\ pc = "client_recv"
    /\ \E r \in client_recv_loop(recv_setting,
                                 [connections |-> connections, events |-> events,
                                  delayed |-> sim_latency_delayed,
                                  times |-> sim_latency_delivery_times],
                                 socket, now) :
          LET st == process_sim_latency(r.st, now)
          IN  /\ events' = st.events
              /\ sim_latency_delayed' = st.delayed
              /\ sim_latency_delivery_times' = st.times
              /\ socket' = r.rest
              /\ rx' = SubSeq(socket, 1, Len(socket) - Len(r.rest))
    /\ pc' = "client_conn"
    /\ UNCHANGED << now, elapsed, sent, recv_setting, heard >>
    /\ UNCHANGED server_vars
    /\ UNCHANGED transport_vars
    /\ UNCHANGED send_vars
    /\ UNCHANGED tick_vars
    /\ UNCHANGED client_vars

\* The Message arm without the comparison of the tag.
client_Message_arm_any_tag(w, e, t) ==
    IF Len(e.payload) < HEADER_LEN + 1 THEN w
    ELSE LET last_applied_input == read_u32(SubSeq(e.payload, 5, 8))
             local_client_index == e.payload[9]
             packet == DecodeServerToClient(
                           SubSeq(e.payload, HEADER_LEN + 1, Len(e.payload)))
         IN  IF ~packet.ok THEN w
             ELSE IF packet.variant = "WorldState"
             THEN [w EXCEPT !.states =
                                Append(@, [frame |-> packet.frame,
                                           last_applied_input |-> last_applied_input,
                                           local_client_index |-> local_client_index]),
                            !.received_per_sec = Append(@, t)]
             ELSE [w EXCEPT !.pongs = Append(@, packet.ping_id)]

\* The Message arm of the client's connection_handler; w is
\* [states, received_per_sec, pongs].
client_Message_arm(w, e, t) ==
    IF Len(e.payload) < HEADER_LEN + 1 THEN w                  \* packet too small
    ELSE IF SubSeq(e.payload, 1, 4) # WORLD_PACKET_HEADER_TAG THEN w  \* invalid tag
    ELSE LET last_applied_input == read_u32(SubSeq(e.payload, 5, 8))
             local_client_index == e.payload[9]
             packet == DecodeServerToClient(
                           SubSeq(e.payload, HEADER_LEN + 1, Len(e.payload)))
         IN  IF ~packet.ok THEN w
             ELSE IF packet.variant = "WorldState"
             THEN [w EXCEPT !.states =
                                Append(@, [frame |-> packet.frame,
                                           last_applied_input |-> last_applied_input,
                                           local_client_index |-> local_client_index]),
                            !.received_per_sec = Append(@, t)]
             ELSE [w EXCEPT !.pongs = Append(@, packet.ping_id)]

RECURSIVE client_handle_events(_, _, _)
client_handle_events(w, evs, t) ==
    IF evs = <<>> THEN w
    ELSE client_handle_events(
             IF Head(evs).type = "Message" THEN client_Message_arm(w, Head(evs), t)
             ELSE w,
             Tail(evs), t)

client_connection_handler ==
    /\ pc = "client_conn"
    /\ LET w == client_handle_events(
                    [states |-> world_states.states,
                     received_per_sec |-> world_states.received_per_sec,
                     pongs |-> pongs],
                    events, now)
       IN  /\ world_states' = [states |-> w.states,
                               received_per_sec |-> w.received_per_sec]
           /\ pongs' = w.pongs
    /\ events' = <<>>
    /\ pc' = "client_start_tick"
    /\ UNCHANGED << now, elapsed, socket, sent, recv_setting,
                    sim_latency_delayed, sim_latency_delivery_times, heard, rx >>
    /\ UNCHANGED server_vars
    /\ UNCHANGED transport_vars
    /\ UNCHANGED send_vars
    /\ UNCHANGED tick_vars

(***************************************************************************)
(* Transport on its own: send and drain_messages_to_send called in any     *)
(* order, with time passing between the calls.  A message carries the      *)
(* number of the call of send that made it.                                *)
(***************************************************************************)
MaxSends == 3
MaxDrains == 2
MaxTransportTicks == 2
\* The time between two calls when it is not the same instant.
TransportClockStep == 3 * TICK_S

\* test_payload() and heartbeat_payload() of the tests.
TransportPayloads == {<<116, 101, 115, 116>>, Heartbeat}
\* The filters the callers pass: |_| true, |m| m.payload ==
\* heartbeat_payload(), |_| false.
Filters == {"all", "heartbeats", "none"}
filter(f, m) ==
    CASE f = "all" -> TRUE
      [] f = "heartbeats" -> m.payload = Heartbeat
      [] OTHER -> FALSE

\* The send-side profiles: none, and loss with jitter.
SendSettings == {Setting(0, 0, 0), Setting(0, 30, 50)}

\* sim_send_times with t appended, whatever the times before it.
push_back_send_time(times, t) == Append(times, t)
\* binary_search(&t).unwrap_or_else(|p| p), then insert(pos, t).
insert_send_time(times, t) == InsertSorted(times, t)

\* Transport::send that queues a delayed message without its send time.
Transport_send_untimed(tr, m, r) ==
    IF r.kind = "Drop" THEN tr
    ELSE [messages |-> Append(tr.messages, m),
          sim_send_times |-> tr.sim_send_times]

\* Transport::send when roll gives r; tr is [messages, sim_send_times].
Transport_send(tr, m, r) ==
    IF r.kind = "Drop" THEN tr
    ELSE [messages |-> Append(tr.messages, m),
          sim_send_times |-> IF r.kind = "Delay"
                             THEN insert_send_time(tr.sim_send_times, r.t)
                             ELSE tr.sim_send_times]

RemoveAt(q, i) == SubSeq(q, 1, i - 1) \o SubSeq(q, i + 1, Len(q))

\* The while loop with `i += 1` after a removal as well.
RECURSIVE drain_loop_stepping_on(_, _, _, _, _, _)
drain_loop_stepping_on(tr, out, i, f, using_send_sim, t) ==
    IF i > Len(tr.messages) THEN [tr |-> tr, drained |-> out]
    ELSE IF (using_send_sim => t >= tr.sim_send_times[i]) /\ filter(f, tr.messages[i])
    THEN drain_loop_stepping_on(
             [messages |-> RemoveAt(tr.messages, i),
              sim_send_times |-> IF using_send_sim THEN RemoveAt(tr.sim_send_times, i)
                                 ELSE tr.sim_send_times],
             Append(out, tr.messages[i]), i + 1, f, using_send_sim, t)
    ELSE drain_loop_stepping_on(tr, out, i + 1, f, using_send_sim, t)

\* The while loop of drain_messages_to_send from index i (counted from 1),
\* with `out` drained so far.
RECURSIVE drain_loop(_, _, _, _, _, _)
drain_loop(tr, out, i, f, using_send_sim, t) ==
    IF i = Len(tr.messages) + 1 THEN [tr |-> tr, drained |-> out]
    ELSE IF (using_send_sim => t >= tr.sim_send_times[i]) /\ filter(f, tr.messages[i])
    THEN drain_loop(
             [messages |-> RemoveAt(tr.messages, i),
              sim_send_times |-> IF using_send_sim THEN RemoveAt(tr.sim_send_times, i)
                                 ELSE tr.sim_send_times],
             Append(out, tr.messages[i]), i, f, using_send_sim, t)
    ELSE drain_loop(tr, out, i + 1, f, using_send_sim, t)

\* The two assertions at the top of drain_messages_to_send.
drain_asserts(tr, using_send_sim) ==
    IF using_send_sim THEN Len(tr.messages) = Len(tr.sim_send_times)
    ELSE tr.sim_send_times = <<>>

TransportSend ==
    /\ pc = "transport"
    /\ Len(rolled) < MaxSends
    /\ \E dest \in {"a"} : \E payload \in TransportPayloads :
       \E r \in roll(sim_send_settings, now) :
          LET tr == Transport_send(
                        [messages |-> messages, sim_send_times |-> sim_send_times],
                        [destination |-> dest, payload |-> payload,
                         n |-> Len(rolled) + 1],
                        r)
          IN  /\ messages' = tr.messages
              /\ sim_send_times' = tr.sim_send_times
              /\ rolled' = Append(rolled, r.kind)
    /\ UNCHANGED << pc, now, elapsed, frame_counter, socket, sent, recv_setting,
                    connections, events, sim_latency_delayed,
                    sim_latency_delivery_times, conns, addr_to_entity,
                    next_player_index, net_id_next, next_entity, world, heard,
                    rx, before, world_states, pongs, score, bricks, issued,
                    sim_send_settings, drained, send_failed >>
    /\ UNCHANGED tick_vars

TransportDrain ==
    /\ pc = "transport"
    /\ drained.calls < MaxDrains
    /\ \E f \in Filters :
          LET tr == [messages |-> messages, sim_send_times |-> sim_send_times]
              using_send_sim == is_set(sim_send_settings)
              r == drain_loop(tr, <<>>, 1, f, using_send_sim, now)
          IN  IF drain_asserts(tr, using_send_sim)
              THEN /\ messages' = r.tr.messages
                   /\ sim_send_times' = r.tr.sim_send_times
                   /\ drained' = [calls |-> drained.calls + 1, filter |-> f,
                                  sends |-> Len(rolled), messages |-> r.drained]
                   /\ pc' = pc
              ELSE /\ pc' = "panicked"
                   /\ UNCHANGED << messages, sim_send_times, drained >>
    /\ UNCHANGED << now, elapsed, frame_counter, socket, sent, recv_setting,
                    connections, events, sim_latency_delayed,
                    sim_latency_delivery_times, conns, addr_to_entity,
                    next_player_index, net_id_next, next_entity, world, heard,
                    rx, before, world_states, pongs, score, bricks, issued,
                    sim_send_settings, rolled, send_failed >>
    /\ UNCHANGED tick_vars

\* Time passes between two calls.
TransportClock ==
    /\ pc = "transport"
    /\ now < MaxTransportTicks * TransportClockStep
    /\ now' = now + TransportClockStep
    /\ UNCHANGED << pc, elapsed, frame_counter, socket, sent, recv_setting,
                    connections, events, sim_latency_delayed,
                    sim_latency_delivery_times, conns, addr_to_entity,
                    next_player_index, net_id_next, next_entity, messages,
                    world, heard, rx, before, world_states, pongs, score,
                    bricks, issued >>
    /\ UNCHANGED transport_vars
    /\ UNCHANGED send_vars
    /\ UNCHANGED tick_vars

(***************************************************************************)
(* The server.                                                             *)
(***************************************************************************)
\* The systems of FixedUpdate, chained.
\* The systems of the server's FixedUpdate chain, with the balls meeting
\* bricks until the score is max_score.
TickWith(max_score) ==
    \/ server_recv_packet_system
    \/ idle_timeout_system
    \/ connection_handler
    \/ process_input
    \/ check_for_collisions(max_score)
    \/ broadcast_world_state
    \/ send_packet_system

\* The ticks in which no ball has come up to the bricks yet.
Tick == TickWith(0)

\* The server with no simulated latency (ServerPlugin's default settings).
Next ==
    \/ \E a \in Addrs : \E p \in Payloads(a) :
          PeerSend("start_tick", a, p, MaxDatagrams, MaxTicks)
    \/ SocketError
    \/ \E d \in RealDeltas : StartTick("start_tick", "recv", d, MaxTicks)
    \/ Tick

Spec == Init /\ [][Next]_vars

\* The server with ServerPlugin given each of the receive-side latency
\* profiles in its sim_settings.
LatencyInit == \E s \in RecvSettings : InitWith(s, "start_tick")

LatencyNext ==
    \/ \E a \in Addrs : \E p \in LatencyPayloads(a) :
          PeerSend("start_tick", a, p, MaxDatagramsLatency, MaxTicksLatency)
    \/ \E d \in RealDeltas : StartTick("start_tick", "recv", d, MaxTicksLatency)
    \/ Tick

LatencySpec == LatencyInit /\ [][LatencyNext]_vars

\* The receive paths of both applications under each receive-side latency
\* profile: a behaviour is the server's or the client's.
ClientTick ==
    \/ client_recv_packet_system
    \/ client_connection_handler

RecvInit ==
    \E s \in RecvSettings : \E at \in {"start_tick", "client_start_tick"} :
        InitWith(s, at)

RecvNext ==
    \/ \E a \in Addrs : \E p \in LatencyPayloads(a) :
          PeerSend("start_tick", a, p, MaxDatagramsLatency, MaxTicksRecv)
    \/ \E d \in RealDeltas : StartTick("start_tick", "recv", d, MaxTicksRecv)
    \/ Tick
    \/ \E p \in ServerPayloads :
          PeerSend("client_start_tick", "server", p, MaxDatagramsLatency, MaxTicksRecv)
    \/ \E d \in RealDeltas :
          StartTick("client_start_tick", "client_recv", d, MaxTicksRecv)
    \/ ClientTick

RecvSpec == RecvInit /\ [][RecvNext]_vars

\* The server over its whole life: started after any of PastConnections
\* connections, so that its counters come to the top of their ranges, and with
\* the balls meeting bricks.
MaxTicksWorld == 3
MaxDatagramsWorld == 2
MaxScore == 2
PastConnections == {0, 255, (65535 - (1 + n_rows * n_columns)) \div 2}

WorldPayloads(a) == {Heartbeat}

WorldInit == \E k \in PastConnections : InitAfter(k, Setting(0, 0, 0), "start_tick")

WorldNext ==
    \/ \E a \in Addrs : \E p \in WorldPayloads(a) :
          PeerSend("start_tick", a, p, MaxDatagramsWorld, MaxTicksWorld)
    \/ \E d \in RealDeltas : StartTick("start_tick", "recv", d, MaxTicksWorld)
    \/ TickWith(MaxScore)

WorldSpec == WorldInit /\ [][WorldNext]_vars

\* The server's handler given SendError events: the event for the world state
\* of a connection's address is put among the unread events between two
\* ticks, as send_packet_system writes it when the socket has that address
\* as its peer.
SendErrorEvent ==
    /\ pc = "start_tick"
    /\ elapsed < MaxTicksRecv * TICK_S
    /\ send_failed = <<>>
    /\ \E a \in DOMAIN addr_to_entity :
          LET m == Message(a, "WorldState", world.frame, 0)
          IN  /\ events' = Append(events, Event("SendError", a, m.payload))
              /\ send_failed' = <<m>>
    /\ UNCHANGED << pc, now, elapsed, frame_counter, socket, sent, recv_setting,
                    connections, sim_latency_delayed,
                    sim_latency_delivery_times, conns, addr_to_entity,
                    next_player_index, net_id_next, next_entity, messages,
                    world, heard, rx, before, world_states, pongs, score,
                    bricks, issued >>
    /\ UNCHANGED transport_vars
    /\ UNCHANGED tick_vars

HandlerNext ==
    \/ \E a \in Addrs : \E p \in LatencyPayloads(a) :
          PeerSend("start_tick", a, p, MaxDatagramsLatency, MaxTicksRecv)
    \/ \E d \in RealDeltas : StartTick("start_tick", "recv", d, MaxTicksRecv)
    \/ Tick
    \/ SendErrorEvent

HandlerSpec == Init /\ [][HandlerNext]_vars

\* A Transport made by Transport::new with each of the send-side profiles.
TransportInit ==
    \E snd \in SendSettings : InitState(0, Setting(0, 0, 0), snd, "transport")

TransportNext ==
    \/ TransportSend
    \/ TransportDrain
    \/ TransportClock

TransportSpec == TransportInit /\ [][TransportNext]_vars

(***************************************************************************)
(* Claims about process_input.  They are read in the state right after     *)
(* process_input, where `before` holds the connections as the system found *)
(* them.                                                                   *)
(***************************************************************************)
AfterProcessInput == pc = "collide"

\* The number of inputs process_input has just consumed for connection id.
NumConsumed(id) == Len(conns[id].taken) - Len(before[id].taken)

\* The inputs a connection has when it consumes the first k of the queue q.
ConsumedOf(q, k) == SubSeq(q, 1, k)

\* The oldest input of connection record b has waited less than
\* BUFFER_DELAY_S at the time of this tick.
OldestTooYoung(b) == now - Head(b.inputs).time_received < BUFFER_DELAY_S

\* C1: a connection that process_input finds in Buffering with an empty
\* queue, or with an oldest input received less than BUFFER_DELAY_S ago, has
\* no input consumed, its paddle not moved, and stays in Buffering.
C1_BufferingHolds ==
    AfterProcessInput =>
        \A id \in DOMAIN before :
            (before[id].input_state = "Buffering"
             /\ (before[id].inputs = <<>> \/ OldestTooYoung(before[id])))
            => /\ conns[id].inputs = before[id].inputs
               /\ NumConsumed(id) = 0
               /\ conns[id].paddle_x = before[id].paddle_x
               /\ conns[id].input_state = "Buffering"

\* C1 happens: a Buffering connection with a queued input that is too young
\* went through process_input.
C1_Witness ==
    /\ AfterProcessInput
    /\ \E id \in DOMAIN before :
          /\ before[id].input_state = "Buffering"
          /\ before[id].inputs # <<>>
          /\ OldestTooYoung(before[id])
          /\ conns[id].input_state = "Buffering"

\* C2: a connection that process_input finds in Playing has at least one
\* input consumed if its queue is not empty; if its queue is empty it goes to
\* Buffering and nothing is consumed.
C2_PlayingConsumes ==
    AfterProcessInput =>
        \A id \in DOMAIN before :
            before[id].input_state = "Playing" =>
                IF before[id].inputs # <<>>
                THEN /\ NumConsumed(id) >= 1
                     /\ Len(conns[id].inputs) = Len(before[id].inputs) - NumConsumed(id)
                ELSE /\ conns[id].input_state = "Buffering"
                     /\ NumConsumed(id) = 0
                     /\ conns[id].inputs = <<>>
                     /\ conns[id].paddle_x = before[id].paddle_x

\* C2 happens: one connection in Playing consumed from a non-empty queue in
\* some tick, and starved in this one.
C2_Witness ==
    /\ AfterProcessInput
    /\ \E id \in DOMAIN before :
          /\ before[id].input_state = "Playing"
          /\ before[id].inputs = <<>>
          /\ before[id].taken # <<>>
          /\ conns[id].input_state = "Buffering"

\* C3: a tick that consumes from a queue of length n consumes exactly
\* max(1, n - BUFFER_LEN + 1) inputs and leaves fewer than BUFFER_LEN queued.
C3_CatchUpBounded ==
    AfterProcessInput =>
        \A id \in DOMAIN before :
            NumConsumed(id) > 0 =>
                /\ NumConsumed(id) = Max(1, Len(before[id].inputs) - BUFFER_LEN + 1)
                /\ Len(conns[id].inputs) < BUFFER_LEN

\* C3 happens: a tick consumed more than one input to catch up.
C3_Witness ==
    /\ AfterProcessInput
    /\ \E id \in DOMAIN before : NumConsumed(id) >= 2

\* The arrival numbers of a queue of inputs.
ArrivalNumbers(q) == [i \in 1..Len(q) |-> q[i].n]
StrictlyIncreasing(s) == \A i, j \in 1..Len(s) : i < j => s[i] < s[j]

\* C4: the inputs a connection has consumed are a prefix of the inputs
\* appended to its buffer, which are in the order their datagrams arrived;
\* what is queued is the rest, in that order.
C4_ConsumedInArrivalOrder ==
    \A id \in DOMAIN conns :
        /\ IsPrefix(conns[id].taken, conns[id].pushed)
        /\ StrictlyIncreasing(conns[id].pushed)
        /\ ArrivalNumbers(conns[id].inputs)
             = SubSeq(conns[id].pushed, Len(conns[id].taken) + 1, Len(conns[id].pushed))

\* C4 happens: one tick consumed two inputs whose sequence numbers arrived
\* out of order.
C4_Witness ==
    /\ AfterProcessInput
    /\ \E id \in DOMAIN before :
          /\ NumConsumed(id) >= 2
          /\ before[id].inputs[1].sequence > before[id].inputs[2].sequence

RECURSIVE MovedByEach(_, _)
MovedByEach(x, q) ==
    IF q = <<>> THEN x
    ELSE MovedByEach(new_paddle_position(x, key_direction(Head(q).key_mask)), Tail(q))

\* C6: every input consumed moves the paddle by dir * PADDLE_SPEED * dt,
\* clamped, with dir in {-1, 0, 1} given by that input's own key mask, also
\* when a tick consumes several inputs.
C6_EachInputOwnDirection ==
    AfterProcessInput =>
        \A id \in DOMAIN before :
            conns[id].paddle_x =
                MovedByEach(before[id].paddle_x,
                            ConsumedOf(before[id].inputs, NumConsumed(id)))

\* C7: every paddle's X is within [PADDLE_LEFT_BOUND, PADDLE_RIGHT_BOUND].
C7_PaddleWithinBounds ==
    \A id \in DOMAIN conns :
        /\ PADDLE_LEFT_BOUND <= conns[id].paddle_x
        /\ conns[id].paddle_x <= PADDLE_RIGHT_BOUND

\* C7 happens: an input moved a paddle that was off the left bound onto it,
\* where the unclamped position is beyond the bound.
C7_Witness ==
    /\ AfterProcessInput
    /\ \E id \in DOMAIN before :
          /\ NumConsumed(id) >= 1
          /\ before[id].paddle_x > PADDLE_LEFT_BOUND
          /\ before[id].paddle_x - (PADDLE_SPEED * TICK_S) \div 1000 < PADDLE_LEFT_BOUND
          /\ conns[id].paddle_x = PADDLE_LEFT_BOUND

(***************************************************************************)
(* Claims about the connection registry, the receive step and the          *)
(* connections the handler spawns.                                         *)
(***************************************************************************)
\* The end of a server tick's game systems: the snapshot has been built.
AfterBroadcast == pc = "send"

\* The connections whose peer has address a.
ConnsOf(a) == {id \in DOMAIN conns : conns[id].addr = a}

\* The peer with address a has sent nothing that the server read for more
\* than the idle timeout.
SilentTooLong(a) == a \in DOMAIN heard /\ elapsed - heard[a] > idle_timeout

\* The NetIds of the balls and paddles of a snapshot.
NetIdsOf(w) ==
    {w.entities[i].net_id :
        i \in {j \in 1..Len(w.entities) :
                   w.entities[j].entity_type \in {"Ball", "Paddle"}}}

\* C8: once a peer has been silent for more than the idle timeout, the tick
\* that finds it so leaves it out of the registry, with no connection, paddle
\* or ball, and the snapshot of that tick has none of its NetIds; under every
\* receive-side latency profile.
C8_IdlePeerRemoved ==
    AfterBroadcast =>
        /\ \A a \in Addrs :
              SilentTooLong(a) =>
                  /\ a \notin DOMAIN connections
                  /\ ConnsOf(a) = {}
                  /\ a \notin DOMAIN addr_to_entity
        /\ world.frame = frame_counter =>
              NetIdsOf(world) \subseteq
                  UNION { {conns[id].paddle_net_id, conns[id].ball_net_id} :
                          id \in {i \in DOMAIN conns : ~SilentTooLong(conns[i].addr)} }

\* What the receive step that is being taken reads from the socket.
ReadNow == SubSeq(socket, 1, Len(socket) - Len(socket'))
IsHeartbeat(d) == d.type = "Ok" /\ Len(d.payload) = 0
OnlyHeartbeats(ds) == ds # <<>> /\ \A i \in 1..Len(ds) : IsHeartbeat(ds[i])
SendersOf(ds) == {ds[i].addr : i \in {j \in 1..Len(ds) : ds[j].type = "Ok"}}
MessagesOf(evs) == SelectSeq(evs, LAMBDA e : e.type = "Message")

\* What a receive step that reads nothing makes of the events and the delay
\* queue: process_sim_latency alone.
Undisturbed ==
    process_sim_latency([connections |-> connections, events |-> events,
                         delayed |-> sim_latency_delayed,
                         times |-> sim_latency_delivery_times], now)

\* The receive step leaves events and delay queue as if it had read nothing.
NothingBesidesRefresh ==
    /\ events' = Undisturbed.events
    /\ sim_latency_delayed' = Undisturbed.delayed
    /\ sim_latency_delivery_times' = Undisturbed.times

\* Every datagram the server's receive step reads sets its sender's
\* last-activity time to the time of the tick, and a step changes the time
\* of no address it read nothing from.
RefreshesSenders ==
    pc = "recv" =>
        /\ \A a \in SendersOf(ReadNow) :
              a \in DOMAIN connections' /\ connections'[a] = elapsed
        /\ \A a \in DOMAIN connections' \ SendersOf(ReadNow) :
              a \in DOMAIN connections /\ connections'[a] = connections[a]

\* The step adds at most one Message event per datagram read that is not of
\* length zero.
NoMessageForHeartbeat ==
    Len(MessagesOf(events' \o sim_latency_delayed'))
        <= Len(MessagesOf(events \o sim_latency_delayed))
           + Cardinality({i \in 1..Len(ReadNow) :
                             ReadNow[i].type = "Ok" /\ ~IsHeartbeat(ReadNow[i])})

\* A receive step of which C9 as stated holds.
HeartbeatOnlyRefreshesStep ==
    pc \in {"recv", "client_recv"} =>
        /\ RefreshesSenders
        /\ NoMessageForHeartbeat
        /\ OnlyHeartbeats(ReadNow) => NothingBesidesRefresh

\* C9 as stated: every datagram the server reads refreshes its sender's
\* last-activity time; a receive step of the server or of the client that
\* reads only zero-length datagrams produces no Message event and changes
\* nothing else.
C9_HeartbeatOnlyRefreshes == [][HeartbeatOnlyRefreshesStep]_vars

\* A receive step of which the amended C9 holds.
HeartbeatRefreshesOrConnectsStep ==
    pc \in {"recv", "client_recv"} =>
        /\ RefreshesSenders
        /\ NoMessageForHeartbeat
        /\ OnlyHeartbeats(ReadNow) =>
              IF pc = "client_recv" \/ SendersOf(ReadNow) \subseteq DOMAIN connections
              THEN NothingBesidesRefresh
              ELSE /\ MessagesOf(events' \o sim_latency_delayed')
                        = MessagesOf(events \o sim_latency_delayed)
                   /\ Range(events' \o sim_latency_delayed')
                          \ Range(events \o sim_latency_delayed)
                        \subseteq {Event("Connected", a, <<>>) :
                                      a \in SendersOf(ReadNow) \ DOMAIN connections}

\* C9, amended: every datagram the server reads refreshes its sender's
\* last-activity time; a zero-length datagram produces no Message event on
\* server or client, and changes nothing else on the client, nor on the
\* server when its sender is already in the registry; from a sender that is
\* not, the only other thing it adds is that sender's Connected event.
C9_HeartbeatRefreshesOrConnects == [][HeartbeatRefreshesOrConnectsStep]_vars

\* C9 happens: the server has just read a heartbeat from an address that has
\* a connection, the registry holds the time of this tick for it, and no
\* event came of it.
C9_Witness ==
    /\ pc = "idle"
    /\ OnlyHeartbeats(rx)
    /\ \A a \in SendersOf(rx) :
          a \in DOMAIN addr_to_entity /\ connections[a] = elapsed /\ heard[a] = elapsed
    /\ events = <<>>
    /\ elapsed > TICK_S

\* C10: every address in the registry has, once the handler has run, exactly
\* one NetConnection (with its paddle and ball), or its Connected event is
\* still waiting in the delay queue; under every receive-side latency and
\* loss profile.
C10_OneConnectionPerAddress ==
    pc \in {"input", "collide", "broadcast", "send", "start_tick"} =>
        \A a \in DOMAIN connections :
            \/ /\ Cardinality(ConnsOf(a)) = 1
               /\ a \in DOMAIN addr_to_entity
               /\ addr_to_entity[a] \in ConnsOf(a)
            \/ /\ ConnsOf(a) = {}
               /\ Event("Connected", a, <<>>) \in Range(sim_latency_delayed)

(***************************************************************************)
(* Claims C11..C20.                                                        *)
(***************************************************************************)
\* What the handler's step owes the Message event e: a connection of e's
\* address that holds e's input (by arrival number) or e's ping afterwards.
DeliveredAfter(e) ==
    LET packet == DecodeClientToServer(e.payload)
    IN  \E id \in DOMAIN conns' :
            /\ conns'[id].addr = e.addr
            /\ IF packet.variant = "Input"
               THEN e.n \in Range(conns'[id].pushed)
               ELSE packet.ping_id \in Range(conns'[id].pings)

EveryMessageDeliveredStep ==
    (pc = "conn" /\ pc' = "input") =>
        \A i \in 1..Len(events) :
            (/\ events[i].type = "Message"
             /\ events[i].addr \in DOMAIN connections
             /\ DecodeClientToServer(events[i].payload).ok)
                => DeliveredAfter(events[i])

\* C11: every decodable Input (resp. Ping) datagram from an address in the
\* server's registry, the one that established the connection and any other
\* handled together with its Connected event included, is in that
\* connection's input buffer (resp. ping queue) once the handler has run.
C11_EveryMessageDelivered == [][EveryMessageDeliveredStep]_vars

\* The connections the handler's step creates.
CreatedNow == {id \in DOMAIN conns' : id \notin DOMAIN conns}

NoIndexGivenTwiceStep ==
    (pc = "conn" /\ pc' = "input") =>
        /\ \A id \in CreatedNow : conns'[id].player_index \notin issued
        /\ \A id1, id2 \in CreatedNow :
              conns'[id1].player_index = conns'[id2].player_index => id1 = id2

\* C12: whatever the number of connections the server has had, a connection
\* it creates gets a PlayerIndex that no connection created before it, or
\* with it, has got.
C12_NoIndexGivenTwice == [][NoIndexGivenTwiceStep]_vars

\* The NetIds of a snapshot are pairwise distinct: those of its bricks are a
\* set, and those of its other entities differ from them and from each other.
PairwiseDistinctNetIds(w) ==
    /\ \A i \in 1..Len(w.entities) : w.entities[i].net_id \notin w.bricks
    /\ \A i, j \in 1..Len(w.entities) :
          w.entities[i].net_id = w.entities[j].net_id => i = j

\* NetId(0) is in a snapshot once, as the score.
ZeroIsTheScore(w) ==
    /\ 0 \notin w.bricks
    /\ \A i \in 1..Len(w.entities) :
          w.entities[i].net_id = 0 <=> w.entities[i].entity_type = "Score"
    /\ Cardinality({i \in 1..Len(w.entities) : w.entities[i].net_id = 0}) = 1

\* C13: whatever the number of calls of NetIdGenerator::next so far, no
\* paddle or ball has got NetId(0) from it, and in the snapshot a tick
\* broadcasts the NetIds are pairwise distinct and NetId(0) is there exactly
\* once, as the score.
C13_NetIdsDistinctAndZeroReserved ==
    /\ \A id \in DOMAIN conns :
          conns[id].paddle_net_id # 0 /\ conns[id].ball_net_id # 0
    /\ (AfterBroadcast /\ world.frame = frame_counter) =>
          PairwiseDistinctNetIds(world) /\ ZeroIsTheScore(world)

ScoreNotLoweredStep == score' >= score

\* C14: no step of the server lowers the score, over any sequence of ticks.
C14_ScoreNonDecreasing == [][ScoreNotLoweredStep]_vars

\* C14 happens: check_for_collisions has run with balls in the world after
\* the score had been raised and bricks wiped out.
C14_Witness ==
    /\ pc = "broadcast"
    /\ conns # Empty
    /\ score > 0
    /\ world.frame > 0 /\ world.entities[Len(world.entities)].score > 0
    /\ Cardinality(bricks) < n_rows * n_columns

\* The message m starts with the header of a connection of its destination.
HasHeaderOfRecipient(m) ==
    \E id \in DOMAIN conns :
        /\ conns[id].addr = m.destination
        /\ Len(m.payload) > HEADER_LEN
        /\ SubSeq(m.payload, 1, 4) = WORLD_PACKET_HEADER_TAG
        /\ SubSeq(m.payload, 5, 8) = write_u32(conns[id].last_applied_input)
        /\ m.payload[9] = conns[id].player_index

\* C15: every message broadcast_world_state has queued, world state or pong,
\* starts with the 9 bytes of the header: the tag, then the
\* last_applied_input and the player index of the connection it is for.
C15_BroadcastWritesHeader ==
    AfterBroadcast => \A i \in 1..Len(messages) : HasHeaderOfRecipient(messages[i])

\* The client's handler lets the message of the event e through.
PassesHeaderCheck(e) ==
    /\ e.type = "Message"
    /\ Len(e.payload) >= HEADER_LEN + 1
    /\ SubSeq(e.payload, 1, 4) = WORLD_PACKET_HEADER_TAG
BodyOf(e) == DecodeServerToClient(SubSeq(e.payload, HEADER_LEN + 1, Len(e.payload)))

\* What the events that pass and decode must leave behind, in their order:
\* the snapshots with the header's fields, and the pongs.
SnapshotsOf(evs) ==
    LET ws == SelectSeq(evs, LAMBDA e : PassesHeaderCheck(e) /\ BodyOf(e).ok
                                        /\ BodyOf(e).variant = "WorldState")
    IN  [i \in 1..Len(ws) |->
            [frame |-> BodyOf(ws[i]).frame,
             last_applied_input |-> read_u32(SubSeq(ws[i].payload, 5, 8)),
             local_client_index |-> ws[i].payload[9]]]
PongsOf(evs) ==
    LET ps == SelectSeq(evs, LAMBDA e : PassesHeaderCheck(e) /\ BodyOf(e).ok
                                        /\ BodyOf(e).variant = "Pong")
    IN  [i \in 1..Len(ps) |-> BodyOf(ps[i]).ping_id]

ClientValidatesHeaderStep ==
    pc = "client_conn" =>
        /\ world_states'.states = world_states.states \o SnapshotsOf(events)
        /\ Len(world_states'.received_per_sec) =
              Len(world_states.received_per_sec) + Len(SnapshotsOf(events))
        /\ pongs' = pongs \o PongsOf(events)

\* C16: the client's handler adds nothing to the snapshot queue, the window
\* of receive times or the pong list for a message shorter than
\* HEADER_LEN + 1 or with another tag; for a message that passes it adds the
\* decoded snapshot with last_applied_input from bytes 4..8 and
\* local_client_index from byte 8, or the decoded pong.
C16_ClientValidatesHeader == [][ClientValidatesHeaderStep]_vars

\* C16 happens: the handler has run on a datagram that is too short and on
\* one with another tag, and what the client holds is the one snapshot of the
\* world state that had a header, with the header's fields.
C16_Witness ==
    /\ pc = "client_start_tick"
    /\ \E i \in 1..Len(rx) : rx[i].type = "Ok" /\ rx[i].payload = <<186, 17, 186>>
    /\ \E i \in 1..Len(rx) :
          /\ rx[i].type = "Ok"
          /\ Len(rx[i].payload) > HEADER_LEN
          /\ SubSeq(rx[i].payload, 1, 4) # WORLD_PACKET_HEADER_TAG
    /\ world_states.states =
          <<[frame |-> 5, last_applied_input |-> 2, local_client_index |-> 1]>>
    /\ Len(world_states.received_per_sec) = 1
    /\ pongs = <<>>
    /\ sent = MaxDatagramsLatency
    /\ socket = <<>> /\ sim_latency_delayed = <<>>

\* The steps of the Transport: a call of send, a call of drain.
IsSendStep == Len(rolled') = Len(rolled) + 1
IsDrainStep == drained'.calls = drained.calls + 1
\* The queued messages that satisfy the filter f, and those that do not.
Satisfying(f, q) == SelectSeq(q, LAMBDA m : filter(f, m))
NotSatisfying(f, q) == SelectSeq(q, LAMBDA m : ~filter(f, m))

NoProfileSendAndDrainStep ==
    ~is_set(sim_send_settings) =>
        /\ IsSendStep =>
              /\ Len(messages') = Len(messages) + 1
              /\ SubSeq(messages', 1, Len(messages)) = messages
              /\ messages'[Len(messages')].n = Len(rolled')
        /\ IsDrainStep =>
              /\ drained'.messages = Satisfying(drained'.filter, messages)
              /\ messages' = NotSatisfying(drained'.filter, messages)
              \* a second drain with the same filter and no send in between
              /\ (/\ drained.calls > 0
                  /\ drained.filter = drained'.filter
                  /\ drained.sends = Len(rolled)) => drained'.messages = <<>>

\* C17: with no latency profile, send appends exactly one message to the
\* queue; drain_messages_to_send(filter) returns exactly the queued messages
\* that satisfy the filter, in send order, and leaves the others queued in
\* their order; a second drain with the same filter right after it returns
\* nothing.
C17_NoProfileSendAndDrain == [][NoProfileSendAndDrainStep]_vars

\* C17 happens: of three messages sent with no profile, a drain of the
\* heartbeats has returned the second alone and left the first and the third.
C17_Witness ==
    /\ pc = "transport"
    /\ ~is_set(sim_send_settings)
    /\ Len(rolled) = 3
    /\ drained.calls = 1 /\ drained.filter = "heartbeats" /\ drained.sends = 3
    /\ Len(drained.messages) = 1 /\ drained.messages[1].n = 2
    /\ Len(messages) = 2 /\ messages[1].n = 1 /\ messages[2].n = 3

\* The number of pending release times that have come.
ReleaseTimesDue == Cardinality({i \in 1..Len(sim_send_times) : sim_send_times[i] <= now})

ProfileKeepsSendOrderStep ==
    is_set(sim_send_settings) =>
        /\ (IsDrainStep /\ drained'.filter = "all") =>
              /\ IsPrefix(drained'.messages, messages)
              /\ messages' = SubSeq(messages, Len(drained'.messages) + 1, Len(messages))
              /\ Len(drained'.messages) <= ReleaseTimesDue
        /\ IsSendStep =>
              IF rolled'[Len(rolled')] = "Drop"
              THEN messages' = messages /\ sim_send_times' = sim_send_times
              ELSE /\ messages'[Len(messages')].n = Len(rolled')
                   /\ SubSeq(messages', 1, Len(messages)) = messages
        /\ \A i \in 1..Len(messages') : rolled'[messages'[i].n] # "Drop"
        /\ \A i \in 1..Len(drained'.messages) : rolled'[drained'.messages[i].n] # "Drop"

\* C18: with a send-side latency profile and whatever delays are rolled,
\* drain_messages_to_send(|_| true) returns a prefix of the queue, which is
\* in the order of the calls of send, and its k-th message only when k of the
\* pending release times are <= now; a message rolled as Drop is never in
\* the queue nor in what a drain returns.
C18_ProfileKeepsSendOrder == [][ProfileKeepsSendOrderStep]_vars

\* C18 happens: the first call rolled a long delay, the second none and the
\* third was dropped; a drain has returned the first message alone, on the
\* release time the second call rolled, and the second message waits.
C18_Witness ==
    /\ pc = "transport"
    /\ is_set(sim_send_settings)
    /\ rolled = <<"Delay", "Delay", "Drop">>
    /\ drained.calls = 1 /\ drained.filter = "all"
    /\ Len(drained.messages) = 1 /\ drained.messages[1].n = 1
    /\ Len(messages) = 1 /\ messages[1].n = 2
    /\ Len(sim_send_times) = 1 /\ sim_send_times[1] > now

\* The SendError events a run of send_packet_system owes: one for each
\* message send_to failed for, with that message's destination as the peer
\* and that message as the payload.
SendErrorsOwed ==
    [i \in 1..Len(send_failed) |->
        Event("SendError", send_failed[i].destination, send_failed[i].payload)]

\* C19: when send_to has failed for a message, send_packet_system has gone
\* through the rest of the drained messages and ended, and the unread events
\* hold exactly one SendError for the message, with its destination as the
\* peer and the message as the payload.
C19_SendErrorReported ==
    (pc \in {"start_tick", "panicked"} /\ send_failed # <<>>) =>
        /\ pc = "start_tick"
        /\ SelectSeq(events, LAMBDA e : e.type = "SendError") = SendErrorsOwed

SendErrorCleanupStep ==
    /\ (pc = "conn" /\ pc' = "input") =>
          \A i \in 1..Len(events) :
              events[i].type = "SendError" =>
                  /\ \A id \in ConnsOf(events[i].addr) : id \notin DOMAIN conns'
                  /\ events[i].addr \notin DOMAIN addr_to_entity'
    /\ pc = "recv" =>
          \A a \in SendersOf(ReadNow) :
              a \notin DOMAIN addr_to_entity =>
                  \E i \in 1..Len(events') :
                      events'[i].type = "Connected" /\ events'[i].addr = a

INTERP_DELAY_S == TICK_S + MIN_JITTER_S

\* f64::round of a / b, for positive a and b.
round(a, b) == (2 * a + b) \div (2 * b)

\* One second, the window of received_per_sec.
ONE_SECOND == 3000

\* Option: None and Some(v).
None == <<>>
Some(v) == <<v>>

\* ClientWorldState::new, with the number n of its arrival.
ClientWorldState(ws, last_applied_input, local_client_index, n) ==
    [world |-> ws, last_applied_input |-> last_applied_input,
     local_client_index |-> local_client_index, n |-> n]

\* ClientWorldState::get_by_net_id: net_id_to_entity keeps the last index
\* inserted for a NetId.
get_by_net_id(ws, net_id) ==
    LET idx == {i \in 1..Len(ws.world.entities) :
                    ws.world.entities[i].net_id = net_id}
    IN  IF idx = {} THEN None
        ELSE Some(ws.world.entities[CHOOSE i \in idx : \A j \in idx : j <= i])

\* The closures paddle_bt and ball_bt.
paddle_bt(dcp, player_index, local_client_index) ==
    IF dcp = FALSE /\ player_index = local_client_index
    THEN "Predicted" ELSE "Interpolated"

ball_bt(dcp, player_index, local_client_index) ==
    IF dcp = FALSE THEN "Predicted" ELSE "Interpolated"

\* spawn_net_bundle of the bundle made for net_ent: the Transform is at the
\* snapshot's position, an InterpolatedTransform is the default.
spawn_net_bundle(net_ent, net_type) ==
    [net_id |-> net_ent.net_id, entity_type |-> net_ent.entity_type,
     player_index |-> net_ent.player_index, net_type |-> net_type,
     x |-> net_ent.x, from |-> 0, to |-> 0]

\* The first loop of sync_net_ids_if_needed_and_update_score from index i.
\* c is [map, ents, spawned, despawned, score, next]: ents are the entities
\* the queries see, spawned and despawned the commands issued so far.
RECURSIVE sync_spawn_loop(_, _, _, _)
sync_spawn_loop(c, ws, i, dcp) ==
    IF i > Len(ws.world.entities) THEN c
    ELSE LET net_ent == ws.world.entities[i]
             net_type ==
                 CASE net_ent.entity_type = "Paddle" ->
                          paddle_bt(dcp, net_ent.player_index, ws.local_client_index)
                   [] net_ent.entity_type = "Brick" -> "Interpolated"
                   [] net_ent.entity_type = "Ball" ->
                          ball_bt(dcp, net_ent.player_index, ws.local_client_index)
                   [] OTHER -> "None"
             entity_id == c.next + 1
         IN  IF net_ent.net_id \in DOMAIN c.map
             THEN sync_spawn_loop(c, ws, i + 1, dcp)
             ELSE IF net_ent.entity_type = "Score"
             THEN sync_spawn_loop([c EXCEPT !.score = net_ent.score],
                                  ws, i + 1, dcp)
             ELSE sync_spawn_loop(
                      [c EXCEPT !.spawned = Put(@, entity_id,
                                                spawn_net_bundle(net_ent, net_type)),
                                !.map = Put(@, net_ent.net_id, entity_id),
                                !.next = entity_id],
                      ws, i + 1, dcp)

\* The second loop: what the query over (Entity, NetId) yields and the
\* snapshot does not name is despawned and taken out of the map.
sync_remove_loop(c, ws) ==
    LET ws_net_ids == {ws.world.entities[i].net_id : i \in 1..Len(ws.world.entities)}
        gone == {e \in DOMAIN c.ents : c.ents[e].net_id \notin ws_net_ids}
    IN  [c EXCEPT !.despawned = @ \cup gone,
                  !.map = Without(@, {c.ents[e].net_id : e \in gone})]

sync_net_ids_if_needed_and_update_score(c, ws, dcp) ==
    sync_remove_loop(sync_spawn_loop(c, ws, 1, dcp), ws)

\* apply_world_state from index i: the query holds the entities that have an
\* InterpolatedTransform.
RECURSIVE apply_world_state(_, _, _)
apply_world_state(c, to_state, i) ==
    IF i > Len(to_state.world.entities) THEN c
    ELSE LET net_ent == to_state.world.entities[i]
             entity == IF net_ent.net_id \in DOMAIN c.map
                       THEN c.map[net_ent.net_id] ELSE 0
             contained == /\ entity \in DOMAIN c.ents
                          /\ c.ents[entity].net_type = "Interpolated"
         IN  IF contained
             THEN apply_world_state(
                      [c EXCEPT !.ents[entity].from = c.ents[entity].to,
                                !.ents[entity].to =
                                    IF net_ent.entity_type = "Score"
                                    THEN c.ents[entity].to ELSE net_ent.x],
                      to_state, i + 1)
             ELSE apply_world_state(c, to_state, i + 1)

update_map_and_apply_world_state(c, to_state, dcp) ==
    apply_world_state(
        sync_net_ids_if_needed_and_update_score(c, to_state, dcp), to_state, 1)

\* The entities after the commands of a system have been applied.
apply_commands(c) ==
    [e \in (DOMAIN c.ents \ c.despawned) \cup DOMAIN c.spawned |->
        IF e \in DOMAIN c.spawned THEN c.spawned[e] ELSE c.ents[e]]

\* received_per_sec without the leading entries older than one second.
RECURSIVE clear_old_entries(_, _)
clear_old_entries(received_per_sec, t) ==
    IF received_per_sec # <<>> /\ t > Head(received_per_sec)
       /\ t - Head(received_per_sec) > ONE_SECOND
    THEN clear_old_entries(Tail(received_per_sec), t)
    ELSE received_per_sec

\* 2 + round(INTERP_DELAY_S / TICK_S).
expected_buffer == 2 + round(INTERP_DELAY_S, TICK_S)

\* What none of the client's systems below writes of the server's state.
server_only_vars ==
    << connections, conns, addr_to_entity, next_player_index, net_id_next,
       next_entity, world, before, score, bricks, issued >>

new_input_unnumbered(counter, from, key_mask) ==
    [sequence |-> 0, simulating_frame |-> from[1], key_mask |-> key_mask]

\* The PlayerInputData send_input fills in: the frame counter is its
\* sequence, interpolating_from.unwrap() its simulating_frame.
new_input(counter, from, key_mask) ==
    [sequence |-> counter, simulating_frame |-> from[1],
     key_mask |-> key_mask]

\* send_input; key_mask is what the keyboard holds.  The client runs without
\* a send profile, so that Transport::send queues the message as it is.
send_input(key_masks) ==
    /\ pc = "send_input"
    /\ IF interpolating_from = None
       THEN UNCHANGED << unacked_inputs, messages >>
       ELSE \E key_mask \in key_masks :
               LET input == new_input(frame_counter, interpolating_from,
                                      key_mask)
               IN  /\ unacked_inputs' = Append(unacked_inputs, input)
                   /\ messages' = Append(messages,
                          [destination |-> "server",
                           payload |-> EncodeInput(key_mask, input.sequence,
                                                   input.simulating_frame)])
    /\ pc' = "client_handler"
    /\ UNCHANGED << now, elapsed, frame_counter, socket, sent, recv_setting,
                    events, sim_latency_delayed, sim_latency_delivery_times,
                    heard, rx, interp_started, interpolating_from,
                    interpolating_to, net_id_to_entity_id, client_entities,
                    client_next_entity, client_score,
                    disable_client_prediction, unacked_before,
                    ticked >>
    /\ UNCHANGED server_only_vars
    /\ UNCHANGED transport_vars
    /\ UNCHANGED send_vars
    /\ UNCHANGED client_vars

\* The snapshots of the model.  The local client is player 0.  "all" is the
\* world of two players with two bricks left, "hit" is that world after a
\* ball has destroyed brick 1, "left" is "hit" after player 1 has gone.  The
\* entities come in the order of broadcast_world_state: bricks, balls,
\* paddles, score.
NetWorldStateData(kind, frame, x) ==
    [frame |-> frame,
     entities |->
        (IF kind = "all" THEN <<NetEntity("Brick", 1, 0, -300)>> ELSE <<>>)
        \o <<NetEntity("Brick", 2, 0, 300), NetEntity("Ball", 3, 0, 0)>>
        \o (IF kind = "left" THEN <<>> ELSE <<NetEntity("Ball", 5, 1, 0)>>)
        \o <<NetEntity("Paddle", 4, 0, x)>>
        \o (IF kind = "left" THEN <<>> ELSE <<NetEntity("Paddle", 6, 1, -x)>>)
        \o <<[entity_type |-> "Score", net_id |-> 0,
              score |-> IF kind = "all" THEN 0 ELSE 1]>>]

\* The WorldState arm of connection_handler for each of wss in turn, at the
\* instant t.
RECURSIVE client_WorldState_arm(_, _, _)
client_WorldState_arm(w, wss, t) ==
    IF wss = <<>> THEN w
    ELSE client_WorldState_arm(
             [w EXCEPT !.states = Append(@, Head(wss)),
                       !.received_per_sec = Append(@, t)],
             Tail(wss), t)

\* The local_client_index of the snapshots the client receives: the local
\* client is player 0.
LocalClientIndex == 0

\* The kinds a world of kind `kind` can have become.
KindsAfter(kind) ==
    CASE kind = "all" -> {"all", "hit", "left"}
      [] kind = "hit" -> {"hit", "left"}
      [] OTHER -> {"left"}

\* The kind of the world of a snapshot.
KindOf(ws) ==
    IF \E i \in 1..Len(ws.world.entities) : ws.world.entities[i].net_id = 1
    THEN "all"
    ELSE IF \E i \in 1..Len(ws.world.entities) : ws.world.entities[i].net_id = 6
    THEN "hit" ELSE "left"

\* The kind of the world the client saw last.
LastKind ==
    IF world_states.states = <<>> THEN "all"
    ELSE KindOf(world_states.states[Len(world_states.states)])

\* connection_handler when the events of the tick are the world states of
\* up to per_tick datagrams that passed the header check; the server made
\* them in this order out of a world of one of kinds, with the local paddle
\* of the n-th at one of xs[n] and one of acks as last_applied_input.
client_handler(budget, per_tick, kinds, xs, acks) ==
    /\ pc = "client_handler"
    /\ \E k \in 0..Min(per_tick, budget - sent) :
       \E kind \in kinds : \E ack \in acks :
       \E x \in [1..k -> UNION {xs[sent + i] : i \in 1..k}] :
          LET wss == [i \in 1..k |->
                         ClientWorldState(
                             NetWorldStateData(kind, sent + i, x[i]),
                             ack, LocalClientIndex, sent + i)]
              w == client_WorldState_arm(
                       [states |-> world_states.states,
                        received_per_sec |-> world_states.received_per_sec],
                       wss, now)
          IN  /\ \A i \in 1..k : x[i] \in xs[sent + i]
              /\ world_states' = w
              /\ sent' = sent + k
    /\ events' = <<>>
    /\ pc' = "reconcile"
    /\ UNCHANGED << now, elapsed, frame_counter, socket, recv_setting,
                    sim_latency_delayed, sim_latency_delivery_times, heard, rx,
                    messages, pongs >>
    /\ UNCHANGED server_only_vars
    /\ UNCHANGED transport_vars
    /\ UNCHANGED send_vars
    /\ UNCHANGED tick_vars

\* common::move_paddle for one input: the paddle step of the server's
\* process_input for the direction of the input's key mask.
move_paddle(x, input) == new_paddle_position(x, key_direction(input.key_mask))

\* The retain that keeps the acknowledged input itself.
retain_unacked_from(inputs, most_recent_input) ==
    SelectSeq(inputs, LAMBDA input : input.sequence >= most_recent_input)

\* unacked_inputs.inputs.retain(|input| input.sequence > most_recent_input).
retain_unacked(inputs, most_recent_input) ==
    SelectSeq(inputs, LAMBDA input : input.sequence > most_recent_input)

\* The replay that leaves the last input out.
RECURSIVE resimulate_but_last(_, _)
resimulate_but_last(x, inputs) ==
    IF Len(inputs) <= 1 THEN x
    ELSE resimulate_but_last(move_paddle(x, Head(inputs)), Tail(inputs))

\* The replay loop for one paddle: simulate_forward for each input in order.
RECURSIVE resimulate(_, _)
resimulate(x, inputs) ==
    IF inputs = <<>> THEN x
    ELSE resimulate(move_paddle(x, Head(inputs)), Tail(inputs))

\* PaddleFilter: the local entities local_paddle_query yields.
local_paddles(ents) ==
    {e \in DOMAIN ents : /\ ents[e].net_type = "Predicted"
                         /\ ents[e].entity_type = "Paddle"}

\* rollback_to of a paddle: its X from the snapshot when the snapshot names
\* its NetId.  r is [x, panicked].
rollback_to(ent, ws) ==
    LET e == get_by_net_id(ws, ent.net_id)
    IN  IF e = None THEN [x |-> ent.x, panicked |-> FALSE]
        ELSE IF e[1].entity_type = "Paddle"
        THEN [x |-> e[1].x, panicked |-> FALSE]
        ELSE [x |-> ent.x, panicked |-> TRUE]

\* The test that never finds the FIFO empty.
nothing_unacked_never(inputs) == FALSE

\* inputs.is_empty(): nothing is left to replay.
nothing_unacked(inputs) == inputs = <<>>

\* BallFilter and RemainingCollidersFilter: the predicted balls, and the
\* bricks among the colliders the replay tests them against.
predicted_balls(ents) ==
    {e \in DOMAIN ents : /\ ents[e].net_type = "Predicted"
                         /\ ents[e].entity_type = "Ball"}
remaining_bricks(ents) ==
    {e \in DOMAIN ents : ents[e].entity_type = "Brick"}

\* check_single_ball_collision over the replay: the score goes up by one for
\* each brick a predicted ball is found to intersect.
replay_score(sc, hits) == sc + hits

\* reconcile_and_update_predictions, for the inputs, the predicted paddles
\* and the score.  The balls' positions are not kept: replay_hits are the
\* numbers of bricks the replayed balls may be found to intersect.
reconcile_and_update_predictions_hitting(replay_hits) ==
    /\ pc = "reconcile"
    /\ IF world_states.states = <<>>
       THEN /\ pc' = "tick_simulation"
            /\ UNCHANGED << unacked_inputs, client_entities, client_score >>
       ELSE LET most_recent_state ==
                    world_states.states[Len(world_states.states)]
                most_recent_input == most_recent_state.last_applied_input
                inputs == retain_unacked(unacked_inputs, most_recent_input)
                rolled_back == [e \in local_paddles(client_entities) |->
                                   rollback_to(client_entities[e],
                                               most_recent_state)]
            IN  /\ unacked_inputs' = inputs
                /\ IF nothing_unacked(inputs)
                   THEN /\ pc' = "tick_simulation"
                        /\ UNCHANGED << client_entities, client_score >>
                   ELSE IF \E e \in DOMAIN rolled_back : rolled_back[e].panicked
                   THEN /\ pc' = "panicked"
                        /\ UNCHANGED << client_entities, client_score >>
                   ELSE /\ pc' = "tick_simulation"
                        /\ client_entities' =
                              [e \in DOMAIN client_entities |->
                                  IF e \in DOMAIN rolled_back
                                  THEN [client_entities[e] EXCEPT
                                           !.x = resimulate(rolled_back[e].x,
                                                            inputs)]
                                  ELSE client_entities[e]]
                        /\ \E hits \in replay_hits :
                              /\ hits > 0 =>
                                    /\ predicted_balls(client_entities) # {}
                                    /\ hits <= Cardinality(
                                           remaining_bricks(client_entities))
                              /\ client_score' = replay_score(client_score, hits)
    /\ UNCHANGED << now, elapsed, frame_counter, socket, sent, recv_setting,
                    events, sim_latency_delayed, sim_latency_delivery_times,
                    heard, rx, messages, interp_started, interpolating_from,
                    interpolating_to, net_id_to_entity_id, client_next_entity,
                    disable_client_prediction, ticked >>
    /\ unacked_before' = unacked_inputs
    /\ UNCHANGED server_only_vars
    /\ UNCHANGED transport_vars
    /\ UNCHANGED send_vars
    /\ UNCHANGED client_vars

\* The ticks in which no replayed ball comes up to a brick.
reconcile_and_update_predictions ==
    reconcile_and_update_predictions_hitting({0})

\* The queue counts as starved when it holds a snapshot.
starved_when_empty(states) == Len(states) < 1

\* The test that ends a tick as STARVED.
starved(states) == Len(states) < 2

\* The drain that leaves one snapshot more than expected_buffer.
drain_len_short(len) == len - expected_buffer - 1

\* How many snapshots the front of the queue loses when it is longer than
\* expected_buffer.
drain_len(len) == len - expected_buffer

\* tick_simulation on w = [states, received_per_sec, interp_started,
\* interpolating_from, interpolating_to] and the entities and map c at the
\* instant t.  Yields w and c as the system leaves them, and in `ticked` the
\* way it took with the snapshots it popped, skipped and applied.
tick_simulation_of(w, c, t, dcp) ==
    LET cleared == [w EXCEPT !.received_per_sec = clear_old_entries(@, t)]
        done(path, w1, c1, popped, skipped, applied) ==
            [w |-> w1, c |-> c1,
             ticked |-> [path |-> path, popped |-> popped, skipped |-> skipped,
                         applied |-> applied]]
    IN  IF starved(cleared.states)
        THEN done("starved", cleared, c, <<>>, <<>>, <<>>)
        ELSE
        LET bootstrap_first_state == ~cleared.interp_started
            popped == IF cleared.interp_started
                      THEN <<Head(cleared.states)>> ELSE <<>>
            advanced ==
                IF cleared.interp_started
                THEN [cleared EXCEPT
                         !.interpolating_from = Some(Head(cleared.states).world.frame),
                         !.states = Tail(cleared.states)]
                ELSE [cleared EXCEPT !.interp_started = TRUE]
        IN  IF /\ Len(advanced.received_per_sec) > 0
               /\ t - Head(advanced.received_per_sec) < INTERP_DELAY_S
            THEN done("starved_interp", advanced, c, popped, <<>>, <<>>)
            ELSE
            LET n == IF /\ Len(advanced.states) > expected_buffer
                        /\ advanced.interp_started
                     THEN drain_len(Len(advanced.states)) ELSE 0
                skipped == SubSeq(advanced.states, 1, n)
                kept == [advanced EXCEPT
                            !.states = SubSeq(@, n + 1, Len(@))]
            IN  IF \/ bootstrap_first_state /\ Len(kept.states) < 2
                   \/ kept.states = <<>>
                THEN done("empty", kept, c, popped, skipped, <<>>)
                ELSE IF bootstrap_first_state
                THEN LET from_state == kept.states[1]
                         to_state == kept.states[2]
                         c1 == update_map_and_apply_world_state(c, from_state, dcp)
                         c2 == update_map_and_apply_world_state(c1, to_state, dcp)
                     IN  done("bootstrap",
                              [kept EXCEPT
                                  !.interpolating_from = Some(from_state.world.frame),
                                  !.interpolating_to = Some(to_state.world.frame)],
                              c2, popped, skipped, <<from_state, to_state>>)
                ELSE LET to_state == kept.states[1]
                     IN  done("advance",
                              [kept EXCEPT
                                  !.interpolating_to = Some(to_state.world.frame)],
                              update_map_and_apply_world_state(c, to_state, dcp),
                              popped, skipped, <<to_state>>)

\* The score of the Score entity of the snapshot ws, None without one.
snapshot_score(ws) ==
    LET e == get_by_net_id(ws, 0)
    IN  IF e = None THEN None ELSE Some(e[1].score)

tick_simulation ==
    /\ pc = "tick_simulation"
    /\ LET r == tick_simulation_of(
                    [states |-> world_states.states,
                     received_per_sec |-> world_states.received_per_sec,
                     interp_started |-> interp_started,
                     interpolating_from |-> interpolating_from,
                     interpolating_to |-> interpolating_to],
                    [map |-> net_id_to_entity_id, ents |-> client_entities,
                     spawned |-> Empty, despawned |-> {},
                     score |-> client_score, next |-> client_next_entity],
                    now, disable_client_prediction)
       IN  /\ ticked' = [path |-> r.ticked.path, popped |-> r.ticked.popped,
                          skipped |-> r.ticked.skipped,
                          applied |-> r.ticked.applied,
                          tos |-> ticked.tos \o
                                  [i \in 1..Len(r.ticked.applied) |->
                                      r.ticked.applied[i].n],
                          score |-> IF r.ticked.applied = <<>>
                                    THEN ticked.score
                                    ELSE snapshot_score(
                                             r.ticked.applied[
                                                 Len(r.ticked.applied)])]
           /\ world_states' = [states |-> r.w.states,
                               received_per_sec |-> r.w.received_per_sec]
           /\ interp_started' = r.w.interp_started
           /\ interpolating_from' = r.w.interpolating_from
           /\ interpolating_to' = r.w.interpolating_to
           /\ net_id_to_entity_id' = r.c.map
           /\ client_entities' = apply_commands(r.c)
           /\ client_next_entity' = r.c.next
           /\ client_score' = r.c.score
    /\ pongs' = <<>>
    /\ pc' = "end_tick"
    /\ UNCHANGED << now, elapsed, socket, sent, recv_setting, events,
                    sim_latency_delayed, sim_latency_delivery_times, heard, rx,
                    unacked_inputs, disable_client_prediction,
                    unacked_before >>
    /\ UNCHANGED << frame_counter, messages >>
    /\ UNCHANGED server_only_vars
    /\ UNCHANGED transport_vars
    /\ UNCHANGED send_vars

\* The rest of the chain: send_packet_system hands the messages to the
\* connected socket, and the tick's frame ends.  The next run of the fixed
\* schedule is in the same frame (no time passes on Time<Real>), one tick
\* later, or after a pause of `steps`.
client_end_tick(steps, ticks) ==
    /\ pc = "end_tick"
    /\ frame_counter < ticks
    /\ \E step \in steps : now' = now + step
    /\ elapsed' = elapsed + TICK_S
    /\ frame_counter' = frame_counter + 1
    /\ messages' = <<>>
    /\ pc' = "send_input"
    /\ UNCHANGED << socket, sent, recv_setting, events, sim_latency_delayed,
                    sim_latency_delivery_times, heard, rx >>
    /\ UNCHANGED server_only_vars
    /\ UNCHANGED transport_vars
    /\ UNCHANGED send_vars
    /\ UNCHANGED client_vars
    /\ UNCHANGED tick_vars

\* The client's interpolation: no key is held, every snapshot acknowledges
\* input 0, the snapshots are of every kind and time passes in every way.
MaxTicksInterp == 3
MaxSnapshotsInterp == 5
MaxPerTickInterp == 3
ClockSteps == {TICK_S, ONE_SECOND + TICK_S}
NoAck == {0}
\* The local paddle moves one step to the right per snapshot, twice, and
\* then is back.
StepsRight == [n \in 1..MaxSnapshotsInterp |-> {25 * (n % 3)}]

InterpInit ==
    /\ InitServer(0, Setting(0, 0, 0), Setting(0, 0, 0), "send_input")
    /\ \E dcp \in BOOLEAN : InitClient(dcp)

InterpNext ==
    \/ send_input({0})
    \/ client_handler(MaxSnapshotsInterp, MaxPerTickInterp, KindsAfter(LastKind),
                      StepsRight, NoAck)
    \/ reconcile_and_update_predictions
    \/ tick_simulation
    \/ client_end_tick(ClockSteps, MaxTicksInterp)

InterpSpec == InterpInit /\ [][InterpNext]_vars

\* The client's prediction: any key is held in a tick, a snapshot
\* acknowledges no input yet or one of the unacked inputs, the server's
\* paddle is at the centre or one step from the right bound, and the world
\* stays as it is.
MaxTicksPredict == 3
MaxSnapshotsPredict == 4
MaxPerTickPredict == 2
KeyMasks == {0, 2 ^ NetKey_Left, 2 ^ NetKey_Right}
Acks == {0} \cup {unacked_inputs[i].sequence : i \in 1..Len(unacked_inputs)}
CentreOrRight ==
    [n \in 1..MaxSnapshotsPredict |->
        IF n % 2 = 1 THEN {0} ELSE {PADDLE_RIGHT_BOUND - 25}]

PredictInit ==
    /\ InitServer(0, Setting(0, 0, 0), Setting(0, 0, 0), "send_input")
    /\ InitClient(FALSE)

PredictNext ==
    \/ send_input(KeyMasks)
    \/ client_handler(MaxSnapshotsPredict, MaxPerTickPredict, {LastKind},
                      CentreOrRight, Acks)
    \/ reconcile_and_update_predictions
    \/ tick_simulation
    \/ client_end_tick({TICK_S}, MaxTicksPredict)

PredictSpec == PredictInit /\ [][PredictNext]_vars

(***************************************************************************)
(* Claims about the receive loop's error arm and the client's tick.        *)
(***************************************************************************)
AllPendingReadStep ==
    (pc \in {"recv", "client_recv"} /\ pc' # pc) => socket' = <<>>

\* C21: a socket read that fails with an error other than WouldBlock is
\* reported and the loop reads on, so that at the end of the receive step
\* of a tick every datagram that was pending on the socket has been read.
C21_RecvErrorKeepsReading == [][AllPendingReadStep]_vars

StarvedDoesNothingStep ==
    (pc = "tick_simulation" /\ Len(world_states.states) < 2) =>
        /\ world_states'.states = world_states.states
        /\ interp_started' = interp_started
        /\ interpolating_from' = interpolating_from
        /\ interpolating_to' = interpolating_to
        /\ net_id_to_entity_id' = net_id_to_entity_id
        /\ DOMAIN client_entities' = DOMAIN client_entities
        /\ \A e \in DOMAIN client_entities :
              /\ client_entities'[e].from = client_entities[e].from
              /\ client_entities'[e].to = client_entities[e].to

\* C22: a client tick with fewer than 2 queued snapshots is starved and
\* does nothing: the snapshot queue, interp_started, interpolating_from,
\* interpolating_to, the NetId map and every interpolated from/to transform
\* are after tick_simulation what they were before it.
C22_StarvedDoesNothing == [][StarvedDoesNothingStep]_vars

\* A starved tick of a client that has entities and one queued snapshot.
C22_Witness ==
    /\ pc = "end_tick"
    /\ ticked.path = "starved"
    /\ Len(world_states.states) = 1
    /\ client_entities # Empty

\* Every entry of the window of received_per_sec at the instant t is newer
\* than INTERP_DELAY_S, and there is one.
AllNewerThanInterpDelay(received_per_sec, t) ==
    LET window == clear_old_entries(received_per_sec, t)
    IN  /\ window # <<>>
        /\ \A i \in 1..Len(window) : t - window[i] < INTERP_DELAY_S

StarvedInterpSkipsStep ==
    (/\ pc = "tick_simulation"
     /\ Len(world_states.states) >= 2
     /\ AllNewerThanInterpDelay(world_states.received_per_sec, now)) =>
        /\ world_states'.states = world_states.states
        /\ interp_started' = interp_started
        /\ interpolating_from' = interpolating_from
        /\ interpolating_to' = interpolating_to

\* C23: a client tick that is starved because every snapshot in the window
\* of received timestamps is newer than INTERP_DELAY_S skips the tick: the
\* snapshot queue, interp_started, interpolating_from and interpolating_to
\* are after tick_simulation what they were before it, so that no snapshot
\* is lost and the bootstrap is still pending if it had not happened.
C23_StarvedInterpSkips == [][StarvedInterpSkipsStep]_vars

\* The last k elements of q.
LastOf(q, k) == SubSeq(q, Len(q) - k + 1, Len(q))

OverflowDrainedStep ==
    (pc = "tick_simulation" /\ ticked'.applied # <<>>) =>
        LET after_pop == IF interp_started THEN Tail(world_states.states)
                         ELSE world_states.states
        IN  /\ Len(after_pop) > expected_buffer =>
                  /\ Len(ticked'.skipped) = Len(after_pop) - expected_buffer
                  /\ world_states'.states = LastOf(after_pop, expected_buffer)
            /\ Len(after_pop) <= expected_buffer =>
                  world_states'.states = after_pop
            /\ Len(world_states'.states) <= expected_buffer
            /\ \A i \in 1..(Len(world_states'.states) - 1) :
                  world_states'.states[i].n < world_states'.states[i + 1].n

\* C24: in a client tick that applies a snapshot, when the queue after the
\* pop is longer than expected_buffer exactly len - expected_buffer
\* snapshots are removed from its front, so that after the tick the queue
\* holds at most expected_buffer snapshots, the most recently arrived ones
\* in the order of their arrival.
C24_OverflowDrained == [][OverflowDrainedStep]_vars

\* A tick that popped a snapshot, skipped another and applied a third.
C24_Witness ==
    /\ pc = "end_tick"
    /\ ticked.popped # <<>>
    /\ ticked.skipped # <<>>
    /\ ticked.applied # <<>>
    /\ Len(world_states.states) = expected_buffer

\* q is what is left of p when some of its front has been taken away.
IsSuffix(q, p) == Len(q) <= Len(p) /\ q = LastOf(p, Len(q))

\* The tick has applied snapshot[0] and then snapshot[1] of the queue it
\* leaves, and the frames are theirs.
Bootstrapped ==
    /\ Len(world_states'.states) >= 2
    /\ ticked'.popped = <<>>
    /\ ticked'.applied = SubSeq(world_states'.states, 1, 2)
    /\ interpolating_from' = Some(world_states'.states[1].world.frame)
    /\ interpolating_to' = Some(world_states'.states[2].world.frame)

BootstrapStep ==
    /\ (pc = "tick_simulation" /\ ~interp_started
        /\ Len(world_states.states) >= 2) =>
           /\ IsSuffix(world_states'.states, world_states.states)
           /\ Bootstrapped
           /\ interp_started'
    /\ (~interp_started /\ interp_started') => Bootstrapped

\* C25: on the first client tick with at least 2 queued snapshots no
\* snapshot is popped, snapshot[0] and then snapshot[1] of the (possibly
\* drained) queue are applied, interpolating_from is snapshot[0].frame and
\* interpolating_to is snapshot[1].frame, and interp_started becomes true
\* exactly when this has happened.
C25_Bootstrap == [][BootstrapStep]_vars

PoppedWasToStep ==
    (pc = "tick_simulation" /\ ticked'.popped # <<>>) =>
        /\ ticked.tos # <<>>
        /\ ticked'.popped[1].n = ticked.tos[Len(ticked.tos)]
        /\ \A i \in 1..Len(ticked'.applied) :
              /\ ticked'.applied[i].n > ticked'.popped[1].n
              /\ ticked'.applied[i].n \notin Range(ticked.tos)

\* C26: whenever a client tick that is not the bootstrap pops the front
\* snapshot, the popped snapshot is the one most recently applied as `to`,
\* and the snapshot then applied as the new `to` is a later arrival that has
\* not been applied before: no snapshot is applied as `to` twice.
C26_PoppedWasTo == [][PoppedWasToStep]_vars

\* The NetIds of the entities of a snapshot that are not the score.
NonScoreNetIds(ws) ==
    {ws.world.entities[i].net_id :
        i \in {j \in 1..Len(ws.world.entities) :
                  ws.world.entities[j].entity_type # "Score"}}

\* C27: after a snapshot application has taken effect (the two of the
\* bootstrap tick included) the keys of net_id_to_entity_id are exactly the
\* NetIds of the snapshot applied last apart from the score's, each is
\* mapped to a live local entity of its own, and no live local entity with a
\* NetId is missing from the map.
C27_MapFollowsSnapshot ==
    ticked.applied # <<>> =>
        /\ DOMAIN net_id_to_entity_id =
               NonScoreNetIds(ticked.applied[Len(ticked.applied)])
        /\ \A id \in DOMAIN net_id_to_entity_id :
              /\ net_id_to_entity_id[id] \in DOMAIN client_entities
              /\ client_entities[net_id_to_entity_id[id]].net_id = id
        /\ \A id1, id2 \in DOMAIN net_id_to_entity_id :
              id1 # id2 => net_id_to_entity_id[id1] # net_id_to_entity_id[id2]
        /\ \A e \in DOMAIN client_entities :
              /\ client_entities[e].net_id \in DOMAIN net_id_to_entity_id
              /\ net_id_to_entity_id[client_entities[e].net_id] = e

\* C28: with prediction enabled an entity is spawned Predicted if and only
\* if it is a paddle or a ball whose player_index is the snapshot's
\* local_client_index, and every other entity (remote paddles, remote balls,
\* all bricks) is spawned Interpolated; with prediction disabled every
\* entity is Interpolated.
C28_ClassificationAtSpawn ==
    \A e \in DOMAIN client_entities :
        client_entities[e].net_type =
            IF /\ ~disable_client_prediction
               /\ client_entities[e].entity_type \in {"Paddle", "Ball"}
               /\ client_entities[e].player_index = LocalClientIndex
            THEN "Predicted" ELSE "Interpolated"

\* The snapshot received last.
LatestSnapshot == world_states.states[Len(world_states.states)]

AckProcessingStep ==
    IF pc = "reconcile" /\ world_states.states # <<>>
    THEN LET kept == {i \in 1..Len(unacked_inputs) :
                         unacked_inputs[i].sequence >
                             LatestSnapshot.last_applied_input}
         IN  unacked_inputs' = SelectIdx(unacked_inputs, kept, 1)
    ELSE IsPrefix(unacked_inputs, unacked_inputs')

\* C29: after reconcile_and_update_predictions has run with a non-empty
\* snapshot queue the unacked FIFO holds exactly the inputs it held before
\* whose sequence is greater than the last_applied_input of the snapshot
\* received last, in their order; no other step removes an input or adds
\* one anywhere but at the back.
C29_AckProcessing == [][AckProcessingStep]_vars

\* A reconcile that has discarded acknowledged inputs and kept others.
C29_Witness ==
    /\ pc = "tick_simulation"
    /\ unacked_inputs # <<>>
    /\ Len(unacked_inputs) < Len(unacked_before)
    /\ LatestSnapshot.last_applied_input > 0

\* x after move_paddle for each of inputs in order, the last one last.
RECURSIVE AdvancedBy(_, _)
AdvancedBy(x, inputs) ==
    IF inputs = <<>> THEN x
    ELSE move_paddle(AdvancedBy(x, SubSeq(inputs, 1, Len(inputs) - 1)),
                     inputs[Len(inputs)])

\* The X the snapshot ws has for the NetId of the local entity ent.
SnapshotX(ws, ent) == get_by_net_id(ws, ent.net_id)[1].x

ReplayFromSnapshotStep ==
    (pc = "reconcile" /\ world_states.states # <<>> /\ unacked_inputs' # <<>>) =>
        /\ pc' = "tick_simulation"
        /\ \A e \in DOMAIN client_entities :
              (/\ client_entities[e].net_type = "Predicted"
               /\ client_entities[e].entity_type = "Paddle"
               /\ get_by_net_id(LatestSnapshot, client_entities[e].net_id) # None) =>
                  client_entities'[e].x =
                      AdvancedBy(SnapshotX(LatestSnapshot, client_entities[e]),
                                 unacked_inputs')

ReconcileIdempotentStep ==
    (/\ pc = "reconcile"
     /\ world_states.states # <<>>
     /\ \A i \in 1..Len(unacked_inputs) :
           unacked_inputs[i].sequence <= LatestSnapshot.last_applied_input) =>
        /\ unacked_inputs' = <<>>
        /\ client_entities' = client_entities

\* C31: when the last_applied_input of the latest snapshot is at least every
\* unacked sequence, reconcile empties the FIFO and leaves every predicted
\* entity as it was: nothing is rolled back and nothing is replayed.
C31_ReconcileIdempotent == [][ReconcileIdempotentStep]_vars

\* A reconcile that emptied a non-empty FIFO while the predicted paddle was
\* not where the latest snapshot has it.
C31_Witness ==
    /\ pc = "tick_simulation"
    /\ unacked_before # <<>>
    /\ unacked_inputs = <<>>
    /\ \E e \in DOMAIN client_entities :
          /\ client_entities[e].net_type = "Predicted"
          /\ client_entities[e].entity_type = "Paddle"
          /\ get_by_net_id(LatestSnapshot, client_entities[e].net_id) # None
          /\ client_entities[e].x # SnapshotX(LatestSnapshot, client_entities[e])

SendGatedStep ==
    /\ interpolating_from = None => unacked_inputs = <<>>
    /\ interpolating_from # None => interpolating_from' # None
    /\ \A i \in 1..(Len(unacked_inputs) - 1) :
          unacked_inputs[i].sequence < unacked_inputs[i + 1].sequence
    /\ (pc = "send_input" /\ interpolating_from = None) =>
          /\ messages' = messages
          /\ unacked_inputs' = <<>>
    /\ (pc = "send_input" /\ interpolating_from # None) =>
          /\ Len(unacked_inputs') = Len(unacked_inputs) + 1
          /\ SubSeq(unacked_inputs', 1, Len(unacked_inputs)) = unacked_inputs
          /\ LET input == unacked_inputs'[Len(unacked_inputs')]
             IN  /\ input.sequence = frame_counter
                 /\ input.simulating_frame = interpolating_from[1]
                 /\ messages' = Append(messages,
                        [destination |-> "server",
                         payload |-> EncodeInput(input.key_mask,
                                                 input.sequence,
                                                 input.simulating_frame)])
    /\ pc # "send_input" =>
          /\ IsSuffix(unacked_inputs', unacked_inputs)
          /\ Len(messages') <= Len(messages)

\* C32: in every reachable step, while interpolating_from is None the
\* unacked FIFO is empty and send_input queues nothing; interpolating_from,
\* once Some, stays Some; send_input with interpolating_from Some appends
\* exactly one input to the FIFO, with the frame counter as its sequence and
\* interpolating_from as its simulating_frame, and queues exactly that input
\* for the server; no other system appends to the FIFO or queues a message;
\* the sequences in the FIFO are strictly increasing.
C32_SendGated == [][SendGatedStep]_vars

C32_Witness ==
    /\ pc = "client_handler"
    /\ Len(unacked_inputs) >= 2
    /\ Len(messages) = 1
    /\ unacked_inputs[Len(unacked_inputs)].sequence = frame_counter

(***************************************************************************)
(* Scenario S6: the server's Transport drops what it is given to send.     *)
(***************************************************************************)
MaxTicksLoss == 4
MaxPerTickLoss == 1
\* The server's send-side profiles of the scenario: none, and every send lost.
LossProfiles == {Setting(0, 0, 0), Setting(0, 0, 100)}
\* The snapshots that have come through the server's Transport.
Arrived == Len(socket)
\* No paddle moves in the scenario.
Still == [n \in 1..(MaxTicksLoss + 1) |-> {0}]

\* The transport.send of broadcast_world_state for the client's world state,
\* at most once per client tick; what Transport::send keeps goes out with
\* the next send_packet_system and is pending on the client's socket.
server_send_world_state ==
    /\ pc = "send_input"
    /\ Len(rolled) <= frame_counter
    /\ \E r \in roll(sim_send_settings, now) :
          LET tr == Transport_send(
                        [messages |-> socket, sim_send_times |-> sim_send_times],
                        [destination |-> "client", n |-> Len(rolled) + 1],
                        r)
          IN  /\ socket' = tr.messages
              /\ sim_send_times' = tr.sim_send_times
              /\ rolled' = Append(rolled, r.kind)
    /\ UNCHANGED << pc, now, elapsed, frame_counter, sent, recv_setting,
                    events, sim_latency_delayed, sim_latency_delivery_times,
                    heard, rx, messages, sim_send_settings, drained >>
    /\ UNCHANGED server_only_vars
    /\ UNCHANGED send_vars
    /\ UNCHANGED client_vars
    /\ UNCHANGED tick_vars

LossInit ==
    /\ \E snd \in LossProfiles :
          InitServer(0, Setting(0, 0, 0), snd, "send_input")
    /\ InitClient(FALSE)

LossNext ==
    \/ server_send_world_state
    \/ send_input(KeyMasks)
    \/ client_handler(Arrived, MaxPerTickLoss, {LastKind}, Still, NoAck)
    \/ reconcile_and_update_predictions
    \/ tick_simulation
    \/ client_end_tick({TICK_S}, MaxTicksLoss)

LossSpec == LossInit /\ [][LossNext]_vars

\* The chain of the client's FixedUpdate: each system is followed by the next,
\* and the end of a tick by the next tick's first system.
ClientChain ==
    [send_input |-> "client_handler", client_handler |-> "reconcile",
     reconcile |-> "tick_simulation", tick_simulation |-> "end_tick",
     end_tick |-> "send_input"]

\* The schedule runs the system the chain has come to.
ClientTickRuns ==
    /\ pc \in DOMAIN ClientChain
    /\ pc = "end_tick" => frame_counter < MaxTicksLoss
    /\ pc' = ClientChain[pc]

\* The client's fixed ticks keep running: Bevy runs every system of the
\* chain in every tick, and a tick follows a tick.
LossFairSpec == LossSpec /\ WF_pc(ClientTickRuns)

AllSendsLost == sim_send_settings.loss_pct = 100

\* C33: with every send of the server lost the client receives no snapshot,
\* every client tick ends as STARVED, and the unacked-input FIFO grows: at
\* the end of a tick it holds an input.
C33_LossGrowsFifo ==
    AllSendsLost =>
        /\ sent = 0
        /\ world_states.states = <<>>
        /\ pc = "end_tick" => /\ ticked.path = "starved"
                              /\ unacked_inputs # <<>>

\* The parts of the sentence that hold: no snapshot, every tick STARVED.
LossStarves ==
    AllSendsLost =>
        /\ sent = 0
        /\ world_states.states = <<>>
        /\ pc = "end_tick" => ticked.path = "starved"

\* With every send lost the FIFO is empty in every state.
LossLeavesFifoEmpty == AllSendsLost => unacked_inputs = <<>>

\* Without the loss the FIFO does grow.
FifoGrowsWithoutLoss ==
    ~AllSendsLost /\ Len(unacked_inputs) >= 2

\* What the broadcast step has queued, and of it what goes to address a.
QueuedByStep == SubSeq(messages', Len(messages) + 1, Len(messages'))
QueuedFor(a) == SelectSeq(QueuedByStep, LAMBDA m : m.destination = a)

\* The ping ids of the Pongs the step has queued for address a, and the pings
\* the connections of address a hold, both in their order.
PongsFor(a) ==
    LET ps == SelectSeq(QueuedFor(a),
                        LAMBDA m : DecodeServerToClient(m.payload).variant = "Pong")
    IN  [i \in 1..Len(ps) |-> DecodeServerToClient(ps[i].payload).ping_id]
PingsOf(a) ==
    LET ids == Ascending(DOMAIN conns)
    IN  Concat([i \in 1..Len(ids) |->
                   IF conns[ids[i]].addr = a THEN conns[ids[i]].pings
                   ELSE <<>>])

PingEchoStep ==
    /\ pc \notin {"input", "collide", "broadcast"} =>
          \A id \in DOMAIN conns : conns[id].pings = <<>>
    /\ pc = "broadcast" =>
          /\ \A a \in Addrs :
                /\ PongsFor(a) = PingsOf(a)
                /\ QueuedFor(a) # <<>> =>
                      DecodeServerToClient(QueuedFor(a)[1].payload).variant
                          = "WorldState"
          /\ \A i \in 1..Len(QueuedByStep) :
                QueuedByStep[i].destination \in Addrs
          /\ \A id \in DOMAIN conns' : conns'[id].pings = <<>>

\* C34: the pings a connection's queue holds when broadcast_world_state runs
\* are those the handler of the same tick has put there (the queues are empty
\* outside the stretch from the handler to the broadcast); the broadcast
\* queues for each connection's address its world state and then one Pong
\* per queued ping, with the ping's id and in the pings' order, queues
\* nothing for any other address, and leaves every ping queue empty.
C34_PingEcho == [][PingEchoStep]_vars

C34_Witness ==
    /\ pc = "send"
    /\ \E i, j \in 1..Len(messages) :
          /\ i < j
          /\ messages[i].kind = "WorldState"
          /\ messages[j].kind = "Pong"
          /\ messages[i].destination = messages[j].destination
          /\ \E k \in 1..Len(messages) :
                messages[k].destination # messages[j].destination

(***************************************************************************)
(* The client's score: the predicted balls come up to the bricks while the *)
(* inputs are replayed.                                                     *)
(***************************************************************************)
MaxTicksScore == 3
MaxSnapshotsScore == 4
MaxPerTickScore == 2
\* The numbers of bricks one replay may find the balls to intersect.
ReplayHits == {0, 1}
\* The local paddle stays at the centre.
Centre == [n \in 1..MaxSnapshotsScore |-> {0}]

ScoreInit ==
    /\ InitServer(0, Setting(0, 0, 0), Setting(0, 0, 0), "send_input")
    /\ InitClient(FALSE)

ScoreNext ==
    \/ send_input({0})
    \/ client_handler(MaxSnapshotsScore, MaxPerTickScore, KindsAfter(LastKind),
                      Centre, NoAck)
    \/ reconcile_and_update_predictions_hitting(ReplayHits)
    \/ tick_simulation
    \/ client_end_tick({TICK_S}, MaxTicksScore)

ScoreSpec == ScoreInit /\ [][ScoreNext]_vars

\* C35: when tick_simulation has run, which is when update_scoreboard reads
\* the Score, the client's Score is the score of the Score entity of the
\* snapshot applied last, if one has been applied: nothing the tick does,
\* the replay of collisions in the reconciliation included, leaves it at
\* another value.
C35_ScoreMirrors ==
    (pc = "end_tick" /\ ticked.score # None) => client_score = ticked.score[1]

\* The bricks setup spawns.
InitialBricks == n_rows * n_columns

\* C36: in every reachable state of the server the score and the number of
\* live bricks add up to the number of bricks setup has spawned, also after a
\* tick in which two balls have intersected the same brick.
C36_BrickAccounting == score + Cardinality(bricks) = InitialBricks

\* The Connected event of address a is still in the simulated-latency queue.
ConnectedWaiting(a) == Event("Connected", a, <<>>) \in Range(sim_latency_delayed)

\* Each half of the agreement of the two tables.
RegistryHasEntity ==
    \A a \in DOMAIN connections : a \in DOMAIN addr_to_entity \/ ConnectedWaiting(a)
EntityHasRegistry == DOMAIN addr_to_entity \subseteq DOMAIN connections

\* C37: at the end of a server tick every address of the registry whose
\* Connected event is not waiting in the simulated-latency queue is a key of
\* addr_to_entity, and every key of addr_to_entity is in the registry; under
\* every receive-side latency and loss profile.
C37_TablesInStep == AfterBroadcast => (RegistryHasEntity /\ EntityHasRegistry)

\* The positions a snapshot of the interpolation runs can carry for the
\* entity with this NetId.
SnapshotPositions(net_id) ==
    LET worlds == {NetWorldStateData(kind, 1, x) :
                      kind \in {"all", "hit", "left"},
                      x \in UNION {StepsRight[n] : n \in DOMAIN StepsRight}}
    IN  UNION {{w.entities[i].x :
                   i \in {j \in 1..Len(w.entities) :
                              /\ w.entities[j].net_id = net_id
                              /\ w.entities[j].entity_type # "Score"}} :
               w \in worlds}

\* C38: in every state, from the one in which it is spawned onwards, `from`
\* and `to` of an interpolated entity are positions that snapshots carry for
\* its NetId, and not the default of InterpolatedTransform.
C38_InterpolatedFromSnapshots ==
    \A e \in DOMAIN client_entities :
        client_entities[e].net_type = "Interpolated" =>
            /\ client_entities[e].from \in SnapshotPositions(client_entities[e].net_id)
            /\ client_entities[e].to \in SnapshotPositions(client_entities[e].net_id)

(***************************************************************************)
(* The delay queues of both directions: a behaviour is a Transport under   *)
(* each send-side profile, or the server under each receive-side profile.  *)
(***************************************************************************)
MaxTicksQueues == 2
MaxDatagramsQueues == 2

QueuesInit == TransportInit \/ LatencyInit

QueuesNext ==
    \/ TransportNext
    \/ \E a \in Addrs : \E p \in LatencyPayloads(a) :
          PeerSend("start_tick", a, p, MaxDatagramsQueues, MaxTicksQueues)
    \/ \E d \in RealDeltas : StartTick("start_tick", "recv", d, MaxTicksQueues)
    \/ Tick

QueuesSpec == QueuesInit /\ [][QueuesNext]_vars

Sorted(times) == \A i \in 1..(Len(times) - 1) : times[i] <= times[i + 1]

\* C39: in every state, with a send profile set messages and sim_send_times
\* have the same length and sim_send_times is sorted, and with none
\* sim_send_times is empty; the delayed events and their delivery times have
\* the same length; so the assertions at the top of the two drains hold
\* whenever they are run.
C39_QueuesParallel ==
    /\ is_set(sim_send_settings) =>
          /\ Len(messages) = Len(sim_send_times)
          /\ Sorted(sim_send_times)
    /\ ~is_set(sim_send_settings) => sim_send_times = <<>>
    /\ Len(sim_latency_delayed) = Len(sim_latency_delivery_times)
    /\ drain_asserts([messages |-> messages, sim_send_times |-> sim_send_times],
                     is_set(sim_send_settings))

C39_Witness ==
    /\ is_set(sim_send_settings)
    /\ drained.calls > 0
    /\ drained.messages # <<>>
    /\ Len(messages) >= 2
    /\ sim_send_times[1] < sim_send_times[Len(sim_send_times)]

\* The receive side of C39 happens: two delayed events wait for different
\* delivery times.
DelayedEventsWaiting ==
    /\ Len(sim_latency_delayed) >= 2
    /\ sim_latency_delivery_times[1]
          < sim_latency_delivery_times[Len(sim_latency_delivery_times)]

(***************************************************************************)
(* The jitter buffer of one connection over ticks without end.  The server *)
(* reads the clocks only through differences (now - time_received, and the *)
(* accumulated time of the fixed schedule), so the times are kept relative *)
(* to the present: now stays 0, a frame of d moves elapsed and every        *)
(* time_received back by d, and waits of BUFFER_DELAY_S and longer are not *)
(* told apart.  The peer keeps sending, so the connection is never removed.*)
(***************************************************************************)
\* The inputs the handler of one tick and the buffer may hold.
MaxPushedPerTick == 2
MaxBuffered == 4
\* The input of the runs: no key held.
InputIdle == EncodeInput(0, 1, 0)
\* The connection's entity.
JitterEntity == 1

\* The inputs of c seen d later.
aged(c, d) ==
    [c EXCEPT !.inputs =
        [i \in 1..Len(c.inputs) |->
            [c.inputs[i] EXCEPT !.time_received = Max(@ - d, 0 - BUFFER_DELAY_S)]]]

\* The handler's Message arm for k inputs, each named by the lowest number
\* no input of the buffer has.
RECURSIVE push_inputs(_, _, _)
push_inputs(c, k, t) ==
    IF k = 0 THEN c
    ELSE LET used == {c.inputs[i].n : i \in 1..Len(c.inputs)}
             n == CHOOSE m \in 1..MaxBuffered :
                      /\ m \notin used
                      /\ \A l \in 1..(m - 1) : l \in used
         IN  push_inputs(
                 [push_input(c, DecodeClientToServer(InputIdle), t, n)
                     EXCEPT !.pushed = <<>>],
                 k - 1, t)

\* The first datagram of the peer has been handled: its connection exists.
JitterConnect ==
    /\ pc = "jitter_connect"
    /\ conns' = Put(Empty, JitterEntity,
                    NewConnection([next_player_index |-> next_player_index,
                                   net_id_next |-> net_id_next], "a", 0))
    /\ pc' = "jitter_handler"
    /\ UNCHANGED << now, elapsed, frame_counter, socket, sent, recv_setting,
                    connections, events, sim_latency_delayed,
                    sim_latency_delivery_times, addr_to_entity,
                    next_player_index, net_id_next, next_entity, messages,
                    world, heard, rx, before, world_states, pongs, score,
                    bricks, issued >>
    /\ UNCHANGED transport_vars
    /\ UNCHANGED send_vars
    /\ UNCHANGED tick_vars

\* connection_handler in one tick: the fixed schedule starts the tick after
\* a frame of d, and the handler appends the k inputs read in it.
JitterHandler ==
    /\ pc = "jitter_handler"
    /\ \E d \in RealDeltas :
          /\ now + d >= elapsed + TICK_S
          /\ now + d < elapsed + TICK_S + MaxFrame
          /\ elapsed' = elapsed + TICK_S - d
          /\ \E k \in 0..Min(MaxPushedPerTick,
                               MaxBuffered - Len(conns[JitterEntity].inputs)) :
                LET c == [aged(conns[JitterEntity], d) EXCEPT !.taken = <<>>]
                IN  conns' = Put(conns, JitterEntity, push_inputs(c, k, now))
    /\ pc' = "jitter_input"
    /\ UNCHANGED << now, frame_counter, socket, sent, recv_setting,
                    connections, events, sim_latency_delayed,
                    sim_latency_delivery_times, addr_to_entity,
                    next_player_index, net_id_next, next_entity, messages,
                    world, heard, rx, before, world_states, pongs, score,
                    bricks, issued >>
    /\ UNCHANGED transport_vars
    /\ UNCHANGED send_vars
    /\ UNCHANGED tick_vars

\* process_input in the same tick.
JitterInput ==
    /\ pc = "jitter_input"
    /\ conns' = [id \in DOMAIN conns |-> process_input_of(conns[id], now)]
    /\ before' = conns
    /\ pc' = "jitter_handler"
    /\ UNCHANGED << now, elapsed, frame_counter, socket, sent, recv_setting,
                    connections, events, sim_latency_delayed,
                    sim_latency_delivery_times, addr_to_entity,
                    next_player_index, net_id_next, next_entity, messages,
                    world, heard, rx, world_states, pongs, score, bricks,
                    issued >>
    /\ UNCHANGED transport_vars
    /\ UNCHANGED send_vars
    /\ UNCHANGED tick_vars

JitterInit == InitState(0, Setting(0, 0, 0), Setting(0, 0, 0), "jitter_connect")

JitterNext == JitterConnect \/ JitterHandler \/ JitterInput

JitterSpec == JitterInit /\ [][JitterNext]_vars

\* The order of the systems in the FixedUpdate schedule.
JitterChain == [jitter_handler |-> "jitter_input", jitter_input |-> "jitter_handler"]

\* The server's ticks keep running: the schedule runs the next system.
JitterTickRuns ==
    /\ pc \in DOMAIN JitterChain
    /\ pc' = JitterChain[pc]

JitterFairSpec == JitterSpec /\ WF_pc(JitterTickRuns)

\* The input named n is in the connection's buffer.
InBuffer(n) ==
    /\ JitterEntity \in DOMAIN conns
    /\ \E i \in 1..Len(conns[JitterEntity].inputs) :
          conns[JitterEntity].inputs[i].n = n

\* C40: while the server's ticks keep running and the connection stays,
\* every input that is in the connection's buffer is later consumed by
\* process_input.
C40_NoInputStuck == \A n \in 1..MaxBuffered : (InBuffer(n) ~> ~InBuffer(n))

C40_Witness ==
    /\ pc = "jitter_handler"
    /\ JitterEntity \in DOMAIN before
    /\ before[JitterEntity].input_state = "Buffering"
    /\ Len(before[JitterEntity].inputs) = MaxBuffered
    /\ conns[JitterEntity].input_state = "Playing"
    /\ Len(conns[JitterEntity].taken) >= 2

====
